---- MODULE Spec2Model ----
(***************************************************************************)
(* IRDAI Compliance GPT: crawler (src/crawler.py), ingestion and           *)
(* retrieval (src/ingestion.py), background scheduler (src/scheduler.py)   *)
(* and question answering (src/app.py).                                    *)
(*                                                                         *)
(* The specifications share the variables below; each one moves only its   *)
(* own group and leaves the others at their initial value:                 *)
(*   SpecFetch     fetch_with_retry against a transport drawn at Init      *)
(*   Spec          two run_crawl invocations over a small site             *)
(*   SpecCategory  one crawl_category call from each start page            *)
(*   SpecIngest    run_ingestion over a document store, with crashes       *)
(*   SpecSched     the scheduler loop and manual update triggers           *)
(*   SpecQuery     questions answered against an ingested index            *)
(*   SpecStats     get_download_stats against each database condition      *)
(*   SpecExtract   the three text extractors over files of a few pages     *)
(*   SpecFilename  destination paths resolved for document URLs            *)
(* SpecCategoryLive and SpecSchedLive add the fairness conditions.         *)
(***************************************************************************)
EXTENDS Integers, Sequences, FiniteSets, TLC

VARIABLES
    \* ---- fetch_with_retry (SpecFetch) ----
    transport,      \* what the k-th requests.get of the call will do
    fetchPc,        \* "call" before the call, "returned" after it
    fetchOut,       \* the call's locals: attempt, return value, sleeps
    \* ---- crawler (Spec) ----
    ledger,         \* rows of the downloads table (data/irdai_tracker.db)
    files,          \* the document store: destination path -> bytes on disk
    run,            \* per run_crawl invocation: control position and locals
    nfail,          \* environment failures injected so far
    \* ---- ingestion (SpecIngest) ----
    docStore,       \* the files under data/pdfs, data/excel, data/word
    index,          \* the ChromaDB collection: its entries' ids
    ing,            \* run_ingestion: control position and locals
    \* ---- scheduler (SpecSched) ----
    state_file,     \* the content of scheduler_state.json
    _lock,          \* threading.Lock: <<>> when free, else the holding thread
    _scheduler_started,
    thread,         \* per thread: position, local `state` dict, wake-up time
    starter,        \* per start_scheduler call: its position
    now,            \* wall clock, in seconds
    nerr,           \* phases that raised so far
    nclock,         \* clock advances so far
    \* ---- retrieval (SpecQuery) ----
    qry,            \* the question being answered: position, locals, calls made
    \* ---- single function calls (SpecStats, SpecExtract, SpecFilename) ----
    call            \* the call examined: function, arguments, position, result

fetchVars == <<transport, fetchPc, fetchOut>>

crawlVars == <<ledger, files, run, nfail>>

ingestVars == <<docStore, index, ing>>

schedVars == <<state_file, _lock, _scheduler_started, thread, starter, now,
               nerr, nclock>>

queryVars == <<qry>>

callVars == <<call>>

vars == <<transport, fetchPc, fetchOut, ledger, files, run, nfail,
          docStore, index, ing,
          state_file, _lock, _scheduler_started, thread, starter, now,
          nerr, nclock, qry, call>>

(***************************************************************************)
(* Fetcher: src/crawler.py fetch_with_retry                                *)
(***************************************************************************)
MAX_RETRIES == 3

BACKOFF_BASE == 2

\* Outcomes of one requests.get + raise_for_status: a 2xx response, a
\* transport-level failure, or a non-2xx status (HTTPError).
Outcome == {"ok", "ConnectionError", "HTTPError"}

\* The exception classes the except clause of fetch_with_retry catches.
RequestException == {"ConnectionError", "HTTPError"}

\* One more slot than the loop can use, so that a fourth attempt would show.
TransportLen == MAX_RETRIES + 1

Transports == [1..TransportLen -> Outcome]

\* The locals of one fetch_with_retry call before its first loop iteration.
NoFetch == [attempt |-> 1, ret |-> "unset", attempts |-> 0, slept |-> <<>>,
            raised |-> FALSE]

\* Mutant: the except clause catches transport errors only, so a non-2xx
\* status (HTTPError from raise_for_status) leaves the function.
FetchIter_UncaughtHttp(st, out) ==
    IF out = "ok"
    THEN [st EXCEPT !.ret = "resp", !.attempts = @ + 1]
    ELSE IF out \notin {"ConnectionError"}
    THEN [st EXCEPT !.raised = TRUE, !.attempts = @ + 1]
    ELSE LET wait == BACKOFF_BASE ^ st.attempt
         IN  [st EXCEPT !.attempts = @ + 1,
                        !.slept = IF st.attempt < MAX_RETRIES
                                  THEN Append(@, wait) ELSE @,
                        !.attempt = @ + 1]

\* Mutant: time.sleep(wait) is not guarded by attempt < MAX_RETRIES.
FetchIter_AlwaysSleep(st, out) ==
    IF out = "ok"
    THEN [st EXCEPT !.ret = "resp", !.attempts = @ + 1]
    ELSE IF out \notin RequestException
    THEN [st EXCEPT !.raised = TRUE, !.attempts = @ + 1]
    ELSE LET wait == BACKOFF_BASE ^ st.attempt
         IN  [st EXCEPT !.attempts = @ + 1,
                        !.slept = Append(@, wait),
                        !.attempt = @ + 1]

\* One iteration of the for-loop of fetch_with_retry: requests.get and
\* raise_for_status with outcome `out`; on success return the response, on a
\* RequestException compute wait and sleep it unless this was the last attempt.
\* Any other exception is not caught and leaves the function.
FetchIter(st, out) ==
    IF out = "ok"
    THEN [st EXCEPT !.ret = "resp", !.attempts = @ + 1]
    ELSE IF out \notin RequestException
    THEN [st EXCEPT !.raised = TRUE, !.attempts = @ + 1]
    ELSE LET wait == BACKOFF_BASE ^ st.attempt
         IN  [st EXCEPT !.attempts = @ + 1,
                        !.slept = IF st.attempt < MAX_RETRIES
                                  THEN Append(@, wait) ELSE @,
                        !.attempt = @ + 1]

\* The call has left the loop by return or by an exception.
FetchLeft(st) == st.ret # "unset" \/ st.raised

\* range(1, MAX_RETRIES + 1) is exhausted.
FetchExhausted(st) == st.attempt > MAX_RETRIES

\* After the loop: log the error and return None.
FetchExhaust(st) == [st EXCEPT !.ret = "None"]

\* The whole call against transport `tr`, from locals `st` on.
RECURSIVE FetchLoop(_, _)
FetchLoop(tr, st) ==
    IF FetchLeft(st) THEN st
    ELSE IF FetchExhausted(st) THEN FetchExhaust(st)
    ELSE FetchLoop(tr, FetchIter(st, tr[st.attempt]))

fetch_with_retry(tr) == FetchLoop(tr, NoFetch)

(***************************************************************************)
(* Strings are sequences of one-character strings, so that the filename    *)
(* and link functions can be computed as the code computes them.           *)
(***************************************************************************)
LowerChar(c) ==
    CASE c = "A" -> "a" [] c = "C" -> "c" [] c = "D" -> "d" [] c = "E" -> "e"
      [] c = "F" -> "f" [] c = "L" -> "l" [] c = "O" -> "o" [] c = "P" -> "p"
      [] c = "S" -> "s" [] c = "V" -> "v" [] c = "X" -> "x"
      [] OTHER -> c

\* str.lower()
Lower(s) == [i \in 1..Len(s) |-> LowerChar(s[i])]

\* `sub in s`
HasSub(s, sub) ==
    \E i \in 0..(Len(s) - Len(sub)) : SubSeq(s, i + 1, i + Len(sub)) = sub

\* s.endswith(suffix)
EndsWith(s, suffix) ==
    /\ Len(s) >= Len(suffix)
    /\ SubSeq(s, Len(s) - Len(suffix) + 1, Len(s)) = suffix

\* s.split("/")
RECURSIVE Split(_)
Split(s) ==
    IF \A i \in 1..Len(s) : s[i] # "/" THEN <<s>>
    ELSE LET i == CHOOSE k \in 1..Len(s) :
                      s[k] = "/" /\ \A j \in 1..(k - 1) : s[j] # "/"
         IN  <<SubSeq(s, 1, i - 1)>> \o Split(SubSeq(s, i + 1, Len(s)))

HexDigits == {"0", "2", "9", "E", "F", "e", "f"}

\* A character outside printable ASCII (what [^\x20-\x7E] matches).
NonAscii == "U+FFFD"

\* The character a %XX escape decodes to; a byte >= 0x80 on its own is not
\* valid UTF-8 and unquote replaces it by U+FFFD.
Decode(h1, h2) ==
    CASE h1 = "2" /\ h2 \in {"F", "f"} -> "/"
      [] h1 = "2" /\ h2 \in {"E", "e"} -> "."
      [] h1 = "2" /\ h2 = "0"         -> " "
      [] OTHER                        -> NonAscii

\* urllib.parse.unquote
RECURSIVE Unquote(_)
Unquote(s) ==
    IF s = <<>> THEN <<>>
    ELSE IF s[1] = "%" /\ Len(s) >= 3 /\ s[2] \in HexDigits /\ s[3] \in HexDigits
    THEN <<Decode(s[2], s[3])>> \o Unquote(SubSeq(s, 4, Len(s)))
    ELSE <<s[1]>> \o Unquote(Tail(s))

\* s.replace('+', ' ')
PlusToSpace(s) == [i \in 1..Len(s) |-> IF s[i] = "+" THEN " " ELSE s[i]]

\* s.strip(chars): drop leading and trailing characters of the set `cs`
RECURSIVE LStrip(_, _)
LStrip(s, cs) ==
    IF s # <<>> /\ s[1] \in cs THEN LStrip(Tail(s), cs) ELSE s

RECURSIVE RStrip(_, _)
RStrip(s, cs) ==
    IF s # <<>> /\ s[Len(s)] \in cs THEN RStrip(SubSeq(s, 1, Len(s) - 1), cs) ELSE s

Strip(s, cs) == RStrip(LStrip(s, cs), cs)

\* re.sub(r'[^\x20-\x7E]', '_', name)
Sanitize(s) == [i \in 1..Len(s) |-> IF s[i] = NonAscii THEN "_" ELSE s[i]]

\* re.sub(r'_+', '_', name)
RECURSIVE Collapse(_)
Collapse(s) ==
    IF Len(s) < 2 THEN s
    ELSE IF s[1] = "_" /\ s[2] = "_" THEN Collapse(Tail(s))
    ELSE <<s[1]>> \o Collapse(Tail(s))

(***************************************************************************)
(* Configuration: src/crawler.py                                           *)
(***************************************************************************)
ExtPdf == <<".", "p", "d", "f">>

ExtXlsx == <<".", "x", "l", "s", "x">>

ExtXls == <<".", "x", "l", "s">>

ExtCsv == <<".", "c", "s", "v">>

ExtDocx == <<".", "d", "o", "c", "x">>

ExtDoc == <<".", "d", "o", "c">>

\* The keys of DOC_TYPES in dict order.
DocTypeExts == <<ExtPdf, ExtXlsx, ExtXls, ExtCsv, ExtDocx, ExtDoc>>

\* DOC_TYPES.get(ext, PDF_DIR)
DOC_TYPES(ext) ==
    CASE ext = ExtPdf -> "pdfs"
      [] ext \in {ExtXlsx, ExtXls, ExtCsv} -> "excel"
      [] ext \in {ExtDocx, ExtDoc} -> "word"
      [] OTHER -> "pdfs"

\* "pdf" if ext == ".pdf" else ("excel" if ext in (".xlsx", ".xls", ".csv") else "word")
FileType(ext) ==
    IF ext = ExtPdf THEN "pdf"
    ELSE IF ext \in {ExtXlsx, ExtXls, ExtCsv} THEN "excel" ELSE "word"

\* DOCUMENT_CATEGORIES, restricted to two of its four categories.
DOCUMENT_CATEGORIES == <<"regulations", "circulars">>

\* EXTRA_PAGES, restricted to the first of its six pages; its category is
\* path.split("/")[-1] or "home".
EXTRA_PAGES == <<"home">>

\* The listings one run_crawl walks, in order: every category through
\* crawl_category, then every extra page in crawl_extra_pages.
Listings ==
    [i \in 1..(Len(DOCUMENT_CATEGORIES) + Len(EXTRA_PAGES)) |->
        IF i <= Len(DOCUMENT_CATEGORIES)
        THEN [kind |-> "category", category |-> DOCUMENT_CATEGORIES[i]]
        ELSE [kind |-> "extra",
              category |-> EXTRA_PAGES[i - Len(DOCUMENT_CATEGORIES)]]]

\* crawl_category(category, path, max_pages = 5)
max_pages == 5

(***************************************************************************)
(* The source site.  Document URLs are named d1..d4; Href gives the path   *)
(* of each, Body the bytes it serves and ContentType the declared type.    *)
(***************************************************************************)
DocUrls == {"d1", "d2", "d3", "d4"}

\* Further document URLs, met outside run_crawl's site: a second a.pdf in
\* another directory, "+" and "_" runs in the name, an encoded slash, an
\* encoded "../" (literal and %2E dots), a byte that is not ASCII, an
\* upper-case name in the middle of the path, a bare extension.
MoreUrls == {"u1", "u2", "u3", "u4", "u5", "u6", "u7", "u8"}

Href(d) ==
    CASE d = "d1" -> <<"/", "a", ".", "p", "d", "f">>
      [] d = "d2" -> <<"/", "b", ".", "x", "l", "s", "x", "/", "9">>
      [] d = "d3" -> <<"/", "c", ".", "D", "O", "C", "X">>
      [] d = "d4" -> <<"/", "e", "/", ".", "p", "d", "f">>
      [] d = "u1" -> <<"/", "n", "/", "a", ".", "p", "d", "f">>
      [] d = "u2" -> <<"/", "+", "b", "+", "c", "_", "_", ".", "p", "d", "f", "_">>
      [] d = "u3" -> <<"/", "x", "%", "2", "F", "y", ".", "p", "d", "f">>
      [] d = "u4" -> <<"/", ".", ".", "%", "2", "f", "z", ".", "p", "d", "f">>
      [] d = "u5" -> <<"/", "%", "2", "E", "%", "2", "E", "%", "2", "F", "w",
                       ".", "x", "l", "s">>
      [] d = "u6" -> <<"/", "%", "F", "F", ".", "p", "d", "f">>
      [] d = "u7" -> <<"/", "A", ".", "P", "D", "F", "/", "v", "/", "9">>
      [] d = "u8" -> <<"/", ".", "d", "o", "c">>

Body(d) == <<"bytes", d>>

ContentType(d) ==
    CASE d = "d4" -> "text/html"
      [] d = "d1" -> "application/pdf"
      [] OTHER    -> "application/octet-stream"

\* hashlib.sha256 of the streamed bytes
Sha256(bytes) == <<"sha256", bytes>>

\* hashlib.md5(url.encode()).hexdigest()[:8], one block of eight hex digits
Md5Hex8(d) == "md5_" \o d

\* Link structures a category path may lead into: a page whose "next"
\* anchor resolves to the page itself (S1, with one document), pagination cycles of length two
\* (A1, A2) and three (B1..B3), a chain longer than max_pages (L1..L6), and
\* a listing page (D1) with two detail pages, T1 and T2, followed by D2,
\* and a page (N1) that links two documents named a.pdf in two directories.
PagingPage(pg) ==
    CASE pg = "S1" -> [docs |-> {"d2"}, details |-> {}, next |-> "S1"]
      [] pg = "A1" -> [docs |-> {}, details |-> {}, next |-> "A2"]
      [] pg = "A2" -> [docs |-> {}, details |-> {}, next |-> "A1"]
      [] pg = "B1" -> [docs |-> {}, details |-> {}, next |-> "B2"]
      [] pg = "B2" -> [docs |-> {}, details |-> {}, next |-> "B3"]
      [] pg = "B3" -> [docs |-> {}, details |-> {}, next |-> "B1"]
      [] pg = "L1" -> [docs |-> {}, details |-> {}, next |-> "L2"]
      [] pg = "L2" -> [docs |-> {}, details |-> {}, next |-> "L3"]
      [] pg = "L3" -> [docs |-> {}, details |-> {}, next |-> "L4"]
      [] pg = "L4" -> [docs |-> {}, details |-> {}, next |-> "L5"]
      [] pg = "L5" -> [docs |-> {}, details |-> {}, next |-> "L6"]
      [] pg = "L6" -> [docs |-> {}, details |-> {}, next |-> "none"]
      [] pg = "D1" -> [docs |-> {}, details |-> {"T1", "T2"}, next |-> "D2"]
      [] pg = "T2" -> [docs |-> {"d1"}, details |-> {}, next |-> "none"]
      [] pg = "D2" -> [docs |-> {}, details |-> {}, next |-> "none"]
      [] pg = "N1" -> [docs |-> {"d1", "u1"}, details |-> {}, next |-> "none"]

\* The paths crawl_category may be called with.
CategoryStarts ==
    {"R1", "S1", "A1", "A2", "B1", "B2", "B3", "L1", "L2", "D1", "N1"}

\* The listing pages (and the one document-detail page T1): the anchors of
\* each page and its pagination link.
Page(pg) ==
    CASE pg = "R1" -> [docs |-> {"d1", "d2"}, details |-> {},     next |-> "R2"]
      [] pg = "R2" -> [docs |-> {"d1"},       details |-> {"T1"}, next |-> "none"]
      [] pg = "T1" -> [docs |-> {"d3"},       details |-> {},     next |-> "none"]
      [] pg = "C1" -> [docs |-> {"d4"},       details |-> {},     next |-> "none"]
      [] pg = "H1" -> [docs |-> {"d2"},       details |-> {},     next |-> "none"]
      [] OTHER     -> PagingPage(pg)

\* BASE_URL + path
StartPage(category) ==
    CASE category = "regulations" -> "R1"
      [] category = "circulars"   -> "C1"
      [] category = "home"        -> "H1"

(***************************************************************************)
(* Link Discoverer                                                         *)
(***************************************************************************)
\* The first extension of DOC_TYPES contained in href.lower(), <<>> if none.
RECURSIVE FirstExt(_, _)
FirstExt(hl, i) ==
    IF i > Len(DocTypeExts) THEN <<>>
    ELSE IF HasSub(hl, DocTypeExts[i]) THEN DocTypeExts[i]
    ELSE FirstExt(hl, i + 1)

\* extract_doc_links: the set of (full_url, ext) of a page
extract_doc_links(pg) ==
    {<<d, FirstExt(Lower(Href(d)), 1)>> :
        d \in {x \in Page(pg).docs : FirstExt(Lower(Href(x)), 1) # <<>>}}

\* extract_document_detail_links
extract_document_detail_links(pg) == Page(pg).details

\* get_next_page_url
get_next_page_url(pg) == Page(pg).next

(***************************************************************************)
(* Filenames and destination paths                                         *)
(***************************************************************************)
\* Mutant: a name numbered by the attempt.
_extract_doc_filename_Numbered(d, ext) ==
    <<"d", "o", "c", "_", IF call.out = <<>> THEN "1" ELSE "2">> \o ext

\* The name one path segment yields (lines 214-216).
CleanName(part) ==
    Strip(Collapse(Sanitize(Strip(PlusToSpace(Unquote(part)), {" "}))), {"_"})

\* The for-loop of _extract_doc_filename from segment i on, then the fallback.
RECURSIVE NameFrom(_, _, _, _)
NameFrom(d, parts, ext, i) ==
    IF i > Len(parts) THEN <<"d", "o", "c", "_", Md5Hex8(d)>> \o ext
    ELSE IF HasSub(Lower(parts[i]), ext)
            /\ CleanName(parts[i]) # <<>> /\ CleanName(parts[i]) # ext
    THEN CleanName(parts[i])
    ELSE NameFrom(d, parts, ext, i + 1)

_extract_doc_filename(d, ext) == NameFrom(d, Split(Href(d)), ext, 1)

\* download_document lines 233-237: the filename as stored and the
\* destination target_dir / category / filename.
StoredName(d, ext) ==
    LET filename == _extract_doc_filename(d, ext)
    IN  IF EndsWith(Lower(filename), ext) THEN filename ELSE filename \o ext

Dest(d, ext, category) == <<DOC_TYPES(ext), category, StoredName(d, ext)>>

(***************************************************************************)
(* Download Ledger                                                         *)
(***************************************************************************)
\* Mutant: the idempotency gate never finds a row.
is_already_downloaded_Never(rows, url) == FALSE

\* is_already_downloaded: SELECT id FROM downloads WHERE url = ?
is_already_downloaded(rows, url) == \E r \in rows : r.url = url

\* Mutant: INSERT OR REPLACE, the new row takes the place of the old one.
record_download_Replace(rows, url, filename, category, file_hash) ==
    {r \in rows : r.url # url}
        \cup {[url |-> url, filename |-> filename, category |-> category,
               file_hash |-> file_hash]}

\* Mutant: the insert is never committed.
record_download_NoCommit(rows, url, filename, category, file_hash) == rows

\* record_download: INSERT OR IGNORE under the UNIQUE constraint on url
record_download(rows, url, filename, category, file_hash) ==
    IF \E r \in rows : r.url = url THEN rows
    ELSE rows \cup {[url |-> url, filename |-> filename, category |-> category,
                     file_hash |-> file_hash]}

(***************************************************************************)
(* Crawl Orchestrator: run_crawl, crawl_category, crawl_extra_pages and    *)
(* download_document, one action per step between two points where         *)
(* another run can interleave (each fetch, each disk write, each SQL       *)
(* statement).                                                             *)
(***************************************************************************)
\* The run_crawl invocations in flight: the UI's "Run Crawler" button
\* (src/app.py) and the scheduled update (src/scheduler.py) call run_crawl
\* without a common lock.
Runs == {1, 2}

\* Failures the environment may inject in one behaviour (fetches that
\* exhaust their retries, disk errors).
MaxFailures == 1

AllOk == [k \in 1..TransportLen |-> "ok"]

FailTwice == [k \in 1..TransportLen |-> IF k < MAX_RETRIES THEN "HTTPError" ELSE "ok"]

AllDown == [k \in 1..TransportLen |-> "ConnectionError"]

\* What the network may do to one fetch_with_retry call of a crawl.
CrawlTransports(n) ==
    IF n < MaxFailures THEN {AllOk, FailTwice, AllDown} ELSE {AllOk, FailTwice}

\* What the disk may do to one store of download_document.
DiskOutcomes(n) ==
    IF n < MaxFailures THEN {"ok", "mkdir_error", "open_error", "write_error"}
    ELSE {"ok"}

Zero == [pdf |-> 0, excel |-> 0, word |-> 0]

NoRow == [url |-> "none", filename |-> <<>>, category |-> <<>>, file_hash |-> <<>>]

NoDl == [url |-> "none", ret |-> "none", via |-> "none", row |-> NoRow]

\* time.sleep(0.5) after every download_document call and after every
\* detail page, time.sleep(1) before the next listing page; milliseconds.
DOWNLOAD_DELAY == 500

PAGE_DELAY == 1000

\* No download attempt (no listing-page fetch) yet in this listing.
NotYet == -1

\* sinceDl and sincePage are the time slept since the listing's last
\* download_document call and since its last listing-page fetch.
IdleRun ==
    [pc |-> "idle", li |-> 0, url |-> "none", page_num |-> 0, docs |-> {},
     dets |-> {}, inner |-> FALSE, cur |-> <<>>, counts |-> Zero,
     summary |-> Zero, last |-> NoDl, failed |-> FALSE, pred |-> "none",
     startRows |-> 0, sinceDl |-> NotYet, sincePage |-> NotYet]

\* Mutant: the delay is dropped.
Sleep_Skipped(r, ms) == r

\* time.sleep(ms / 1000)
Sleep(r, ms) ==
    [r EXCEPT !.sinceDl = IF @ = NotYet THEN @ ELSE @ + ms,
              !.sincePage = IF @ = NotYet THEN @ ELSE @ + ms]

Category(r) == Listings[r.li].category

\* Mutant: every row is labelled as a PDF.
CategoryLabel_AlwaysPdf(category, ext) == <<category, "pdf">>

\* f"{category}_{file_type}"
CategoryLabel(category, ext) == <<category, FileType(ext)>>

\* The row download_document hands to record_download for link <<d, ext>>.
RowOf(d, ext, category) ==
    [url |-> d, filename |-> StoredName(d, ext),
     category |-> CategoryLabel(category, ext), file_hash |-> Sha256(Body(d))]

\* Mutant: the counts of a listing are dropped instead of being added to
\* the summary.
EndListing_DropCounts(r) ==
    IF r.li = Len(Listings)
    THEN [r EXCEPT !.pc = "done", !.counts = Zero, !.url = "none", !.page_num = 0,
                   !.sinceDl = NotYet, !.sincePage = NotYet]
    ELSE [r EXCEPT !.pc = "list", !.counts = Zero, !.li = @ + 1, !.page_num = 1,
                   !.url = StartPage(Listings[r.li + 1].category),
                   !.sinceDl = NotYet, !.sincePage = NotYet]

\* crawl_category returns its counts (or crawl_extra_pages moves to its next
\* page): run_crawl adds them to the summary and goes on with the next
\* listing, or returns the summary after the last one.
EndListing(r) ==
    LET s == [k \in {"pdf", "excel", "word"} |-> r.summary[k] + r.counts[k]]
    IN  IF r.li = Len(Listings)
        THEN [r EXCEPT !.pc = "done", !.summary = s, !.counts = Zero,
                       !.url = "none", !.page_num = 0,
                       !.sinceDl = NotYet, !.sincePage = NotYet]
        ELSE [r EXCEPT !.pc = "list", !.summary = s, !.counts = Zero,
                       !.li = @ + 1, !.page_num = 1,
                       !.url = StartPage(Listings[r.li + 1].category),
                       !.sinceDl = NotYet, !.sincePage = NotYet]

\* Mutant: the range of the page loop has no upper end.
PaginationEnds_NoBound(next_url, url, page_num) ==
    next_url = "none" \/ next_url = url

\* Mutant: the next URL is not compared with the current one.
PaginationEnds_NoSelfCheck(next_url, url, page_num) ==
    next_url = "none" \/ page_num = max_pages

\* crawl_category lines 296-301 and the end of range(1, max_pages + 1):
\* the page loop is left when there is no next URL, when it is the current
\* URL, or after the max_pages-th page.
PaginationEnds(next_url, url, page_num) ==
    \/ next_url = "none"
    \/ next_url = url
    \/ page_num = max_pages

\* Mutant: when the links of a detail page are done, the remaining detail
\* links of the listing page are dropped.
AfterDocs_DropDetails(r) ==
    IF r.inner
    THEN Sleep([r EXCEPT !.pc = "details", !.inner = FALSE, !.dets = {}],
               DOWNLOAD_DELAY)
    ELSE [r EXCEPT !.pc = "details",
                   !.dets = extract_document_detail_links(r.url)]

\* A for-loop over document links is exhausted: after the direct links the
\* detail links of the page are extracted; after the links of a detail page
\* the loop over detail links goes on, after the delay that ends the
\* detail page's iteration.
AfterDocs(r) ==
    IF r.inner
    THEN Sleep([r EXCEPT !.pc = "details", !.inner = FALSE], DOWNLOAD_DELAY)
    ELSE [r EXCEPT !.pc = "details",
                   !.dets = extract_document_detail_links(r.url)]

\* The detail links are exhausted.  crawl_category looks for the next page
\* and stops when there is none, when it is the current page or when
\* max_pages pages were fetched; crawl_extra_pages goes to its next page.
AfterDetails(r) ==
    LET next_url == get_next_page_url(r.url)
    IN  IF Listings[r.li].kind = "extra" THEN EndListing(r)
        ELSE IF PaginationEnds(next_url, r.url, r.page_num) THEN EndListing(r)
        ELSE Sleep([r EXCEPT !.pc = "list", !.url = next_url, !.page_num = @ + 1],
                   PAGE_DELAY)

\* The run's own control flow up to its next fetch, gate, store or insert:
\* leaving exhausted for-loops touches nothing another run can see.
Advance(r) ==
    LET r1 == IF r.pc = "docs" /\ r.docs = {} THEN AfterDocs(r) ELSE r
    IN  IF r1.pc = "details" /\ r1.dets = {} THEN AfterDetails(r1) ELSE r1

\* How the run that starts relates to the other one: "first" when the other
\* has not started, "clean" when it returned its summary without any failed
\* fetch or store, "failed" when it returned after such a failure, "raised"
\* when it ended by an exception, "overlap" when it is still running.
Predecessor(q) ==
    CASE run[q].pc = "idle" -> "first"
      [] run[q].pc = "done" /\ ~run[q].failed -> "clean"
      [] run[q].pc = "done" /\ run[q].failed -> "failed"
      [] run[q].pc = "raised" -> "raised"
      [] OTHER -> "overlap"

\* run_crawl() is called: init_db, then the first category.
StartCrawl(p) ==
    /\ run[p].pc = "idle"
    /\ run' = [run EXCEPT ![p] =
                 [IdleRun EXCEPT !.pc = "list", !.li = 1, !.page_num = 1,
                                 !.url = StartPage(Listings[1].category),
                                 !.pred = Predecessor(CHOOSE q \in Runs : q # p),
                                 !.startRows = Cardinality(ledger)]]
    /\ UNCHANGED <<ledger, files, nfail>>

\* crawl_category / crawl_extra_pages fetch the listing page; a failed fetch
\* ends the category (break) or skips the extra page (continue).
FetchPage(p) ==
    /\ run[p].pc = "list"
    /\ \E tr \in CrawlTransports(nfail) :
         LET r == run[p]
             resp == fetch_with_retry(tr)
         IN  IF resp.ret = "None"
             THEN /\ run' = [run EXCEPT ![p] = EndListing([r EXCEPT !.failed = TRUE])]
                  /\ nfail' = nfail + 1
             ELSE /\ run' = [run EXCEPT ![p] =
                               Advance([r EXCEPT !.pc = "docs", !.inner = FALSE,
                                                 !.docs = extract_doc_links(r.url),
                                                 !.sincePage = 0])]
                  /\ nfail' = nfail
    /\ UNCHANGED <<ledger, files>>

\* The next link of the for-loop over doc_links (a set: any order), and the
\* first statement of download_document, the idempotency gate; when the
\* gate returns False the loop sleeps and goes on.
BeginDownload(p) ==
    /\ run[p].pc = "docs"
    /\ \E link \in run[p].docs :
         LET r == [run[p] EXCEPT !.sinceDl = 0]
         IN  IF is_already_downloaded(ledger, link[1])
             THEN run' = [run EXCEPT ![p] =
                            Advance(Sleep([r EXCEPT !.docs = @ \ {link},
                                      !.last = [url |-> link[1], ret |-> "False",
                                                via |-> "gate", row |-> NoRow]],
                                      DOWNLOAD_DELAY))]
             ELSE run' = [run EXCEPT ![p] =
                            [r EXCEPT !.docs = @ \ {link}, !.cur = link,
                                      !.pc = "fetch"]]
    /\ UNCHANGED <<ledger, files, nfail>>

\* download_document: resp = fetch_with_retry(url, stream=True)
DlFetch(p) ==
    /\ run[p].pc = "fetch"
    /\ \E tr \in CrawlTransports(nfail) :
         LET r == run[p]
             resp == fetch_with_retry(tr)
         IN  IF resp.ret = "None"
             THEN /\ run' = [run EXCEPT ![p] =
                               Advance(Sleep([r EXCEPT !.pc = "docs", !.cur = <<>>,
                                         !.failed = TRUE,
                                         !.last = [url |-> r.cur[1], ret |-> "False",
                                                   via |-> "fetch_failed",
                                                   row |-> NoRow]],
                                         DOWNLOAD_DELAY))]
                  /\ nfail' = nfail + 1
             ELSE /\ run' = [run EXCEPT ![p] = [r EXCEPT !.pc = "store"]]
                  /\ nfail' = nfail
    /\ UNCHANGED <<ledger, files>>

\* download_document lines 233-249: the destination, dest.parent.mkdir
\* (outside the try), then open(dest, "wb") and the streamed write (inside
\* it).  An OSError of mkdir leaves download_document: inside the
\* detail-page loop the except of crawl_category catches it and the rest of
\* that detail page is dropped; in the direct-link loop nothing catches it
\* and it leaves crawl_category and run_crawl.
DlStore(p) ==
    /\ run[p].pc = "store"
    /\ \E disk \in DiskOutcomes(nfail) :
         LET r == run[p]
             d == r.cur[1]
             ext == r.cur[2]
             dest == Dest(d, ext, Category(r))
             fail(via) == [url |-> d, ret |-> "False", via |-> via, row |-> NoRow]
         IN  CASE disk = "ok" ->
                    /\ files' = (dest :> Body(d)) @@ files
                    /\ run' = [run EXCEPT ![p] = [r EXCEPT !.pc = "record"]]
                    /\ nfail' = nfail
               [] disk = "open_error" ->
                    /\ files' = files
                    /\ run' = [run EXCEPT ![p] =
                                 Advance(Sleep([r EXCEPT !.pc = "docs", !.cur = <<>>,
                                           !.failed = TRUE,
                                           !.last = fail("open_error")],
                                           DOWNLOAD_DELAY))]
                    /\ nfail' = nfail + 1
               [] disk = "write_error" ->
                    /\ files' = (dest :> <<"partial", d>>) @@ files
                    /\ run' = [run EXCEPT ![p] =
                                 Advance(Sleep([r EXCEPT !.pc = "docs", !.cur = <<>>,
                                           !.failed = TRUE,
                                           !.last = fail("write_error")],
                                           DOWNLOAD_DELAY))]
                    /\ nfail' = nfail + 1
               [] disk = "mkdir_error" ->
                    /\ files' = files
                    /\ run' = [run EXCEPT ![p] =
                                 Advance([r EXCEPT
                                           !.pc = IF r.inner THEN "docs" ELSE "raised",
                                           !.docs = IF r.inner THEN {} ELSE @,
                                           !.cur = <<>>, !.failed = TRUE,
                                           !.last = [url |-> d, ret |-> "raised",
                                                     via |-> "mkdir_error",
                                                     row |-> NoRow]])]
                    /\ nfail' = nfail + 1
    /\ UNCHANGED ledger

\* download_document lines 251-254: record_download and return True; the
\* caller counts the download under its type.
DlRecord(p) ==
    /\ run[p].pc = "record"
    /\ LET r == run[p]
           d == r.cur[1]
           ext == r.cur[2]
           row == RowOf(d, ext, Category(r))
       IN  /\ ledger' = record_download(ledger, row.url, row.filename,
                                        row.category, row.file_hash)
           /\ run' = [run EXCEPT ![p] =
                        Advance(Sleep([r EXCEPT !.pc = "docs", !.cur = <<>>,
                                  !.counts[FileType(ext)] = @ + 1,
                                  !.last = [url |-> d, ret |-> "True",
                                            via |-> "recorded", row |-> row]],
                                  DOWNLOAD_DELAY))]
    /\ UNCHANGED <<files, nfail>>

\* The next detail link: fetch the detail page and extract its document
\* links; a failed fetch skips the detail page.
FollowDetail(p) ==
    /\ run[p].pc = "details"
    /\ \E t \in run[p].dets : \E tr \in CrawlTransports(nfail) :
         LET r == run[p]
             resp == fetch_with_retry(tr)
         IN  IF resp.ret = "None"
             THEN /\ run' = [run EXCEPT ![p] =
                               Advance(Sleep([r EXCEPT !.dets = @ \ {t},
                                                       !.failed = TRUE],
                                             DOWNLOAD_DELAY))]
                  /\ nfail' = nfail + 1
             ELSE /\ run' = [run EXCEPT ![p] =
                               Advance([r EXCEPT !.dets = @ \ {t}, !.pc = "docs",
                                         !.inner = TRUE,
                                         !.docs = extract_doc_links(t)])]
                  /\ nfail' = nfail
    /\ UNCHANGED <<ledger, files>>

(***************************************************************************)
(* Ingestion: src/ingestion.py                                             *)
(***************************************************************************)
CHUNK_SIZE == 800

CHUNK_OVERLAP == 100

\* ingest_document: "Upsert in batches of 100"
batch == 100

\* The extractors keep a page or sheet when len(text) > 50.
MIN_PAGE_CHARS == 50

\* Invocations of run_ingestion in one behaviour.
MaxIngestRuns == 2

\* Embedding or index errors the environment may raise in one behaviour.
MaxIngestErrors == 1

Min(a, b) == IF a < b THEN a ELSE b

DigitChars == <<"0", "1", "2", "3", "4", "5", "6", "7", "8", "9">>

\* str(n) of the f-string
RECURSIVE Digits(_)
Digits(n) ==
    IF n < 10 THEN <<DigitChars[n + 1]>>
    ELSE Digits(n \div 10) \o <<DigitChars[(n % 10) + 1]>>

\* f"{doc_path.stem}_p{c['page']}_c{c['chunk']}"
ChunkId(stem, page, chunk) ==
    stem \o <<"_", "p">> \o Digits(page) \o <<"_", "c">> \o Digits(chunk)

\* The documents that may lie in the document store.  `pages` gives the
\* trimmed text length of every page (PDF), sheet (Excel) or of the whole
\* document (Word); a corrupt file makes its extractor raise.
DocUniverse ==
    {[type |-> "pdf",   stem |-> <<"a">>, suffix |-> ExtPdf,
      pages |-> <<2000>>, corrupt |-> FALSE],
     [type |-> "pdf",   stem |-> <<"c">>, suffix |-> ExtPdf,
      pages |-> <<10, 900>>, corrupt |-> FALSE],
     [type |-> "pdf",   stem |-> <<"d">>, suffix |-> ExtPdf,
      pages |-> <<3000>>, corrupt |-> TRUE],
     [type |-> "excel", stem |-> <<"b">>, suffix |-> ExtXlsx,
      pages |-> <<70800>>, corrupt |-> FALSE],
     [type |-> "word",  stem |-> <<"a">>, suffix |-> ExtDocx,
      pages |-> <<51>>, corrupt |-> FALSE]}

\* doc_files of run_ingestion: the *.pdf files, then *.xlsx and *.xls, then
\* *.docx, each group in the order rglob lists it.
RECURSIVE SetToSeq(_)
SetToSeq(S) ==
    IF S = {} THEN <<>>
    ELSE LET f == CHOOSE x \in S : TRUE IN <<f>> \o SetToSeq(S \ {f})

DocFiles(store) ==
    SetToSeq({f \in store : f.type = "pdf"})
        \o SetToSeq({f \in store : f.type = "excel"})
        \o SetToSeq({f \in store : f.type = "word"})

\* Mutant: a page is kept from MIN_PAGE_CHARS characters on.
RECURSIVE KeptPages_AtLeast(_, _)
KeptPages_AtLeast(pages, i) ==
    IF i > Len(pages) THEN <<>>
    ELSE IF pages[i] >= MIN_PAGE_CHARS
    THEN <<[page |-> i, len |-> pages[i]]>> \o KeptPages_AtLeast(pages, i + 1)
    ELSE KeptPages_AtLeast(pages, i + 1)

\* extract_text_from_pdf / _excel / _word: the pages kept, each with its
\* 1-based position; an exception inside is caught and leaves what was
\* collected so far (nothing, when opening the file fails).
RECURSIVE KeptPages(_, _)
KeptPages(pages, i) ==
    IF i > Len(pages) THEN <<>>
    ELSE IF pages[i] > MIN_PAGE_CHARS
    THEN <<[page |-> i, len |-> pages[i]]>> \o KeptPages(pages, i + 1)
    ELSE KeptPages(pages, i + 1)

ExtractPages(f) ==
    IF f.corrupt THEN <<>>
    ELSE IF f.suffix \in {ExtPdf, ExtXlsx, ExtXls, ExtDocx}
    THEN KeptPages(f.pages, 1)
    ELSE <<>>

\* The number of pieces RecursiveCharacterTextSplitter cuts a text of `len`
\* characters into: windows of CHUNK_SIZE that overlap by CHUNK_OVERLAP.
SplitCount(len) ==
    IF len <= CHUNK_SIZE THEN 1
    ELSE 1 + ((len - CHUNK_SIZE) + (CHUNK_SIZE - CHUNK_OVERLAP) - 1)
                 \div (CHUNK_SIZE - CHUNK_OVERLAP)

\* chunk_pages: page by page, the splits of the page with their index
RECURSIVE chunk_pages(_)
chunk_pages(pages) ==
    IF pages = <<>> THEN <<>>
    ELSE [idx \in 1..SplitCount(pages[1].len) |->
             [page |-> pages[1].page, chunk |-> idx - 1]]
         \o chunk_pages(Tail(pages))

\* ingest_document line 188: the ids of a document's chunks, in order
DocIds(f) ==
    LET chunks == chunk_pages(ExtractPages(f))
    IN  [k \in 1..Len(chunks) |-> ChunkId(f.stem, chunks[k].page, chunks[k].chunk)]

\* The vector index is the list of its entries' ids.
IdSet(ix) == {ix[k] : k \in 1..Len(ix)}

\* Mutant: collection.add on a store that keeps every entry it is given.
Upsert_Append(ix, ids) == ix \o ids

\* collection.upsert: an entry whose id exists is replaced, others are added
Upsert(ix, ids) ==
    LET known == IdSet(ix)
        IsNew(id) == id \notin known
    IN  ix \o SelectSeq(ids, IsNew)

\* Mutant: the skip test looks for a page-0 id, which no extractor produces.
FirstId_PageZero(f) == ChunkId(f.stem, 0, 0)

\* f"{doc_path.stem}_p1_c0"
FirstId(f) == ChunkId(f.stem, 1, 0)

\* `chunked` and `skipped` record the files of the run whose chunk ids were
\* derived and the files the run skipped.
IdleIngest ==
    [pc |-> "idle", runNo |-> 0, existing |-> {}, todo |-> <<>>, ids |-> <<>>,
     i |-> 0, total_files |-> 0, total_chunks |-> 0, type_counts |-> Zero,
     prev |-> "none", startIds |-> {}, startCount |-> 0, errors |-> 0,
     chunked |-> {}, skipped |-> {}]

\* run_ingestion is called (after the previous invocation ended): open the
\* collection, list the ids it holds, collect the files.
StartIngest ==
    /\ ing.pc \in {"idle", "done", "crashed", "raised"}
    /\ ing.runNo < MaxIngestRuns
    /\ ing' = [IdleIngest EXCEPT
                 !.pc = "file", !.runNo = ing.runNo + 1,
                 !.existing = IdSet(index), !.todo = DocFiles(docStore),
                 !.prev = IF ing.pc = "idle" THEN "none" ELSE ing.pc,
                 !.startIds = IdSet(index), !.startCount = Len(index),
                 !.errors = ing.errors]
    /\ UNCHANGED <<index, docStore>>

\* The for-loop of run_ingestion has no file left: return the summary.
FinishIngest ==
    /\ ing.pc = "file"
    /\ ing.todo = <<>>
    /\ ing' = [ing EXCEPT !.pc = "done"]
    /\ UNCHANGED <<index, docStore>>

\* The next file is skipped because its first chunk id was in the index
\* when the run started.
SkipFile ==
    /\ ing.pc = "file"
    /\ ing.todo # <<>>
    /\ FirstId(Head(ing.todo)) \in ing.existing
    /\ ing' = [ing EXCEPT !.todo = Tail(@), !.skipped = @ \cup {Head(ing.todo)}]
    /\ UNCHANGED <<index, docStore>>

\* ingest_document up to the upsert loop: extract, chunk, embed, build ids.
\* No pages or no chunks returns 0 and the file counts for nothing.
PrepareFile ==
    /\ ing.pc = "file"
    /\ ing.todo # <<>>
    /\ FirstId(Head(ing.todo)) \notin ing.existing
    /\ LET ids == DocIds(Head(ing.todo))
       IN  ing' = IF ids = <<>>
                  THEN [ing EXCEPT !.todo = Tail(@)]
                  ELSE [ing EXCEPT !.pc = "upsert", !.ids = ids, !.i = 0,
                                   !.chunked = @ \cup {Head(ing.todo)}]
    /\ UNCHANGED <<index, docStore>>

\* model.encode raises (out of memory, model not loadable): nothing in
\* ingest_document or run_ingestion catches it.
EmbedRaises ==
    /\ ing.pc = "file"
    /\ ing.todo # <<>>
    /\ FirstId(Head(ing.todo)) \notin ing.existing
    /\ DocIds(Head(ing.todo)) # <<>>
    /\ ing.errors < MaxIngestErrors
    /\ ing' = [ing EXCEPT !.pc = "raised", !.errors = @ + 1]
    /\ UNCHANGED <<index, docStore>>

\* One collection.upsert of the batch loop; after the last batch
\* ingest_document returns len(chunks) and run_ingestion counts the file.
UpsertBatch ==
    /\ ing.pc = "upsert"
    /\ LET n == Len(ing.ids)
           hi == Min(ing.i + batch, n)
           f == Head(ing.todo)
       IN  /\ index' = Upsert(index, SubSeq(ing.ids, ing.i + 1, hi))
           /\ ing' = IF hi < n
                     THEN [ing EXCEPT !.i = hi]
                     ELSE [ing EXCEPT !.pc = "file", !.i = 0, !.ids = <<>>,
                                      !.todo = Tail(@),
                                      !.total_files = @ + 1,
                                      !.total_chunks = @ + n,
                                      !.type_counts[f.type] = @ + 1]
    /\ UNCHANGED docStore

\* collection.upsert raises (index backend error): the run ends by the
\* exception, with the batches before it stored.
UpsertRaises ==
    /\ ing.pc = "upsert"
    /\ ing.errors < MaxIngestErrors
    /\ ing' = [ing EXCEPT !.pc = "raised", !.errors = @ + 1]
    /\ UNCHANGED <<index, docStore>>

\* The process is killed while run_ingestion is running.
CrashIngest ==
    /\ ing.pc \in {"file", "upsert"}
    /\ ing' = [ing EXCEPT !.pc = "crashed"]
    /\ UNCHANGED <<index, docStore>>

(***************************************************************************)
(* Background scheduler: src/scheduler.py                                  *)
(***************************************************************************)
\* Default of IRDAI_UPDATE_INTERVAL, in seconds.
UPDATE_INTERVAL == 12 * 3600

\* _scheduler_loop: time.sleep(300) between two checks
CHECK_SLEEP == 300

\* Calls of start_scheduler, numbered in the order they begin; call c
\* starts loop thread <<"loop", c>>.
MaxStarts == 2

\* Calls of trigger_manual_update, numbered in the order they are made;
\* call m starts thread <<"manual", m>>.
MaxTriggers == 1

\* Crawl or ingestion phases that may raise in one behaviour.
MaxPhaseErrors == 1

\* Advances of the wall clock in one behaviour.
MaxClockSteps == 1

Loops == {<<"loop", c>> : c \in 1..MaxStarts}

Manuals == {<<"manual", m>> : m \in 1..MaxTriggers}

Threads == Loops \cup Manuals

\* A timestamp that is absent (state.get(...) is None).
NoTime == -1

\* STATE_FILE does not exist: _read_state returns {}.
EmptyState ==
    [is_running |-> FALSE, last_error |-> "None", last_crawl |-> NoTime,
     last_ingestion |-> NoTime, crawl_summary |-> "absent",
     last_summary |-> "absent"]

NoThread == [pc |-> "unborn", state |-> EmptyState, exc |-> "None"]

\* The positions inside _run_update.
RunPcs == {"read", "mark", "crawl", "ingest", "except", "finally"}

Executing(t) == thread[t].pc \in RunPcs

\* _needs_update, evaluated on the state read from disk at time `t`
_needs_update(st, t) ==
    IF st.last_crawl = NoTime THEN TRUE
    ELSE t - st.last_crawl >= UPDATE_INTERVAL

\* The wall clock moves on.
TimePasses ==
    /\ nclock < MaxClockSteps
    /\ \E d \in {CHECK_SLEEP, UPDATE_INTERVAL} : now' = now + d
    /\ nclock' = nclock + 1
    /\ UNCHANGED <<state_file, _lock, _scheduler_started, thread, starter, nerr>>

\* start_scheduler line 133: `if _scheduler_started: return`
StartCheck(c) ==
    /\ starter[c] = "idle"
    /\ \A b \in 1..(c - 1) : starter[b] # "idle"
    /\ starter' = [starter EXCEPT ![c] =
                     IF _scheduler_started THEN "returned" ELSE "set"]
    /\ UNCHANGED <<state_file, _lock, _scheduler_started, thread, now, nerr, nclock>>

\* start_scheduler lines 136-140: set the flag and start the loop thread,
\* which begins by sleeping.
StartThread(c) ==
    /\ starter[c] = "set"
    /\ _scheduler_started' = TRUE
    /\ starter' = [starter EXCEPT ![c] = "returned"]
    /\ thread' = [thread EXCEPT ![<<"loop", c>>] =
                    [NoThread EXCEPT !.pc = "sleep"]]
    /\ UNCHANGED <<state_file, _lock, now, nerr, nclock>>

\* _scheduler_loop: a sleep (time.sleep(10) at the start, time.sleep(300)
\* after every check) is over; `if _needs_update()` outside the lock.  The
\* time spent asleep is left to TimePasses.
LoopCheck(t) ==
    /\ t \in Loops
    /\ thread[t].pc = "sleep"
    /\ thread' = [thread EXCEPT ![t].pc =
                    IF _needs_update(state_file, now) THEN "acquire" ELSE "sleep"]
    /\ UNCHANGED <<state_file, _lock, _scheduler_started, starter, now, nerr, nclock>>

\* `with _lock:` is entered.
LoopAcquire(t) ==
    /\ t \in Loops
    /\ thread[t].pc = "acquire"
    /\ _lock = <<>>
    /\ _lock' = t
    /\ thread' = [thread EXCEPT ![t].pc = "recheck"]
    /\ UNCHANGED <<state_file, _scheduler_started, starter, now, nerr, nclock>>

\* The double check under the lock: call _run_update, or leave the `with`
\* block and sleep.
LoopRecheck(t) ==
    /\ t \in Loops
    /\ thread[t].pc = "recheck"
    /\ IF _needs_update(state_file, now)
       THEN /\ thread' = [thread EXCEPT ![t].pc = "read"]
            /\ _lock' = _lock
       ELSE /\ thread' = [thread EXCEPT ![t].pc = "sleep"]
            /\ _lock' = <<>>
    /\ UNCHANGED <<state_file, _scheduler_started, starter, now, nerr, nclock>>

\* trigger_manual_update: read the state; return False when is_running is
\* set, else start a thread on _run_update and return True.
trigger_manual_update(t) ==
    /\ t \in Manuals
    /\ thread[t].pc = "unborn"
    /\ \A m \in 1..(t[2] - 1) : thread[<<"manual", m>>].pc # "unborn"
    /\ thread' = [thread EXCEPT ![t].pc =
                    IF state_file.is_running THEN "refused" ELSE "read"]
    /\ UNCHANGED <<state_file, _lock, _scheduler_started, starter, now, nerr, nclock>>

\* _run_update line 60: state = _read_state()
RunRead(t) ==
    /\ thread[t].pc = "read"
    /\ thread' = [thread EXCEPT ![t] =
                    [@ EXCEPT !.pc = "mark", !.state = state_file, !.exc = "None"]]
    /\ UNCHANGED <<state_file, _lock, _scheduler_started, starter, now, nerr, nclock>>

\* _run_update lines 61-63: is_running = True, last_error = None, write
RunMark(t) ==
    /\ thread[t].pc = "mark"
    /\ LET st == [thread[t].state EXCEPT !.is_running = TRUE, !.last_error = "None"]
       IN  /\ thread' = [thread EXCEPT ![t] = [@ EXCEPT !.pc = "crawl", !.state = st]]
           /\ state_file' = st
    /\ UNCHANGED <<_lock, _scheduler_started, starter, now, nerr, nclock>>

\* run_crawl returns: last_crawl and crawl_summary are written (lines 69-72)
CrawlPhaseOk(t) ==
    /\ thread[t].pc = "crawl"
    /\ LET st == [thread[t].state EXCEPT !.last_crawl = now, !.crawl_summary = "set"]
       IN  /\ thread' = [thread EXCEPT ![t] = [@ EXCEPT !.pc = "ingest", !.state = st]]
           /\ state_file' = st
    /\ UNCHANGED <<_lock, _scheduler_started, starter, now, nerr, nclock>>

\* run_crawl raises
CrawlPhaseRaises(t) ==
    /\ thread[t].pc = "crawl"
    /\ nerr < MaxPhaseErrors
    /\ nerr' = nerr + 1
    /\ thread' = [thread EXCEPT ![t] = [@ EXCEPT !.pc = "except", !.exc = "crawl error"]]
    /\ UNCHANGED <<state_file, _lock, _scheduler_started, starter, now, nclock>>

\* run_ingestion returns: last_ingestion and last_summary are written
\* (lines 78-84)
IngestPhaseOk(t) ==
    /\ thread[t].pc = "ingest"
    /\ LET st == [thread[t].state EXCEPT !.last_ingestion = now, !.last_summary = "set"]
       IN  /\ thread' = [thread EXCEPT ![t] = [@ EXCEPT !.pc = "finally", !.state = st]]
           /\ state_file' = st
    /\ UNCHANGED <<_lock, _scheduler_started, starter, now, nerr, nclock>>

\* run_ingestion raises
IngestPhaseRaises(t) ==
    /\ thread[t].pc = "ingest"
    /\ nerr < MaxPhaseErrors
    /\ nerr' = nerr + 1
    /\ thread' = [thread EXCEPT ![t] = [@ EXCEPT !.pc = "except", !.exc = "ingestion error"]]
    /\ UNCHANGED <<state_file, _lock, _scheduler_started, starter, now, nclock>>

\* An except clause that logs the exception and stores nothing.
RunExcept_LogOnly(t) ==
    /\ thread[t].pc = "except"
    /\ thread' = [thread EXCEPT ![t].pc = "finally"]
    /\ UNCHANGED <<state_file, _lock, _scheduler_started, starter, now, nerr, nclock>>

\* except Exception: last_error = str(exc), write (lines 87-90)
RunExcept(t) ==
    /\ thread[t].pc = "except"
    /\ LET st == [thread[t].state EXCEPT !.last_error = thread[t].exc]
       IN  /\ thread' = [thread EXCEPT ![t] = [@ EXCEPT !.pc = "finally", !.state = st]]
           /\ state_file' = st
    /\ UNCHANGED <<_lock, _scheduler_started, starter, now, nerr, nclock>>

\* A finally clause that writes the state without clearing is_running.
RunFinally_KeepsFlag(t) ==
    /\ thread[t].pc = "finally"
    /\ state_file' = thread[t].state
    /\ IF t \in Loops
       THEN /\ thread' = [thread EXCEPT ![t] = [NoThread EXCEPT !.pc = "sleep"]]
            /\ _lock' = <<>>
       ELSE /\ thread' = [thread EXCEPT ![t] = [NoThread EXCEPT !.pc = "finished"]]
            /\ _lock' = _lock
    /\ UNCHANGED <<_scheduler_started, starter, now, nerr, nclock>>

\* finally: is_running = False, write (lines 91-93).  _run_update returns:
\* a loop thread leaves the `with _lock` block and sleeps, a manual thread
\* ends; the local `state` goes out of scope.
RunFinally(t) ==
    /\ thread[t].pc = "finally"
    /\ LET st == [thread[t].state EXCEPT !.is_running = FALSE]
       IN  /\ state_file' = st
           /\ IF t \in Loops
              THEN /\ thread' = [thread EXCEPT ![t] =
                                   [NoThread EXCEPT !.pc = "sleep"]]
                   /\ _lock' = <<>>
              ELSE /\ thread' = [thread EXCEPT ![t] =
                                   [NoThread EXCEPT !.pc = "finished"]]
                   /\ _lock' = _lock
    /\ UNCHANGED <<_scheduler_started, starter, now, nerr, nclock>>

(***************************************************************************)
(* Retrieval: retrieve_relevant_chunks (src/ingestion.py) and its caller   *)
(* run_rag_query (src/app.py)                                              *)
(***************************************************************************)
\* run_rag_query: retrieve_relevant_chunks(query, n_results=5)
n_results == 5

\* Direct calls of retrieve_relevant_chunks pass a k in 1..MaxK.
MaxK == 3

\* Questions asked in one behaviour.
MaxQuestions == 2

\* Times the index fails to open in one behaviour.
MaxOpenErrors == 1

Queries == {"q1", "q2"}

\* The answers run_rag_query builds.
EmptyKbAnswer == "No documents found in the knowledge base"

LlmAnswers == {"model answer", "rate limit reached", "LLM error"}

\* Nothing asked yet.  nn_queries and llm_calls count the collection.query
\* and client.chat_completion calls made for the current question.
IdleQuery ==
    [pc |-> "idle", via |-> "none", query |-> "none", k |-> 0,
     chunks |-> {}, answer |-> "none", citations |-> {},
     nn_queries |-> 0, llm_calls |-> 0, asked |-> 0, errors |-> 0]

\* No call is in progress.
QueryAtRest == qry.pc \in {"idle", "done", "raised"}

\* The "Ask IRDAI GPT" button: run_rag_query(user_query, token), which
\* starts by calling retrieve_relevant_chunks(query, n_results=5).
run_rag_query(q) ==
    /\ QueryAtRest
    /\ qry.asked < MaxQuestions
    /\ qry' = [IdleQuery EXCEPT !.pc = "open", !.via = "run_rag_query",
                                !.query = q, !.k = n_results,
                                !.asked = qry.asked + 1,
                                !.errors = qry.errors]
    /\ UNCHANGED <<docStore, index, ing>>

\* retrieve_relevant_chunks(query, k) called on its own.
retrieve_relevant_chunks(q, k) ==
    /\ QueryAtRest
    /\ qry.asked < MaxQuestions
    /\ qry' = [IdleQuery EXCEPT !.pc = "open", !.via = "direct",
                                !.query = q, !.k = k,
                                !.asked = qry.asked + 1,
                                !.errors = qry.errors]
    /\ UNCHANGED <<docStore, index, ing>>

\* get_embed_model() and get_chroma_collection() return.
OpenCollection ==
    /\ qry.pc = "open"
    /\ qry' = [qry EXCEPT !.pc = "count"]
    /\ UNCHANGED <<docStore, index, ing>>

\* get_chroma_collection() raises (the index directory cannot be created or
\* opened).  Neither retrieve_relevant_chunks nor run_rag_query nor the
\* script around the call has an except clause: the exception reaches the
\* UI script.
OpenRaises ==
    /\ qry.pc = "open"
    /\ qry.errors < MaxOpenErrors
    /\ qry' = [qry EXCEPT !.pc = "raised", !.errors = @ + 1]
    /\ UNCHANGED <<docStore, index, ing>>

\* Where retrieve_relevant_chunks returns to.
AfterRetrieve(via) == IF via = "direct" THEN "done" ELSE "returned"

\* `if collection.count() == 0: return []`
CountEmpty ==
    /\ qry.pc = "count"
    /\ Len(index) = 0
    /\ qry' = [qry EXCEPT !.pc = AfterRetrieve(qry.via), !.chunks = {}]
    /\ UNCHANGED <<docStore, index, ing>>

\* Mutant: no count test, the empty collection is queried like any other.
QueryIndex_NoCountTest ==
    /\ qry.pc = "count"
    /\ \E S \in SUBSET IdSet(index) :
          /\ Cardinality(S) = Min(qry.k, Cardinality(IdSet(index)))
          /\ qry' = [qry EXCEPT !.pc = AfterRetrieve(qry.via), !.chunks = S,
                                !.nn_queries = @ + 1]
    /\ UNCHANGED <<docStore, index, ing>>

\* model.encode([query]) and collection.query with
\* n_results = min(n_results, collection.count()): that many entries of the
\* index come back, whichever the nearest are.
QueryIndex ==
    /\ qry.pc = "count"
    /\ Len(index) > 0
    /\ \E S \in SUBSET IdSet(index) :
          /\ Cardinality(S) = Min(qry.k, Cardinality(IdSet(index)))
          /\ qry' = [qry EXCEPT !.pc = AfterRetrieve(qry.via), !.chunks = S,
                                !.nn_queries = @ + 1]
    /\ UNCHANGED <<docStore, index, ing>>

\* run_rag_query: `if not chunks:` returns the fixed answer, no citations.
NoChunksAnswer ==
    /\ qry.pc = "returned"
    /\ qry.chunks = {}
    /\ qry' = [qry EXCEPT !.pc = "done", !.answer = EmptyKbAnswer,
                          !.citations = {}]
    /\ UNCHANGED <<docStore, index, ing>>

\* run_rag_query with chunks: client.chat_completion returns, or raises and
\* the except clause builds the answer from the error; the citations are
\* the chunks' sources.
CallModel ==
    /\ qry.pc = "returned"
    /\ qry.chunks # {}
    /\ \E a \in LlmAnswers :
          qry' = [qry EXCEPT !.pc = "done", !.answer = a,
                            !.citations = qry.chunks, !.llm_calls = @ + 1]
    /\ UNCHANGED <<docStore, index, ing>>

\* The index a complete run_ingestion over the files `fs` leaves.
RECURSIVE IndexAfter(_)
IndexAfter(fs) ==
    IF fs = <<>> THEN <<>>
    ELSE LET n == Len(fs)
         IN  Upsert(IndexAfter(SubSeq(fs, 1, n - 1)), DocIds(fs[n]))

(***************************************************************************)
(* Single function calls                                                   *)
(***************************************************************************)
\* No function is being called.
NoCall == [fn |-> "none", pc |-> "idle"]

(***************************************************************************)
(* The extractors called on their own: src/ingestion.py                    *)
(***************************************************************************)
\* Pages or sheets of a document given to an extractor.
MaxDocPages == 3

\* Trimmed text lengths of a page: empty, around the threshold, long.
PageLens == {0, 50, 51, 900}

PageSeqs(n) == UNION {[1..k -> PageLens] : k \in 1..n}

\* The files an extractor is given: PDF and Excel files of up to
\* MaxDocPages pages or sheets, Word documents (one text), readable or not.
ExtractInputs ==
    {[type |-> "pdf", stem |-> <<"a">>, suffix |-> ExtPdf, pages |-> ps,
      corrupt |-> c] : ps \in PageSeqs(MaxDocPages), c \in BOOLEAN}
    \cup
    {[type |-> "excel", stem |-> <<"a">>, suffix |-> ExtXlsx, pages |-> ps,
      corrupt |-> c] : ps \in PageSeqs(MaxDocPages), c \in BOOLEAN}
    \cup
    {[type |-> "word", stem |-> <<"a">>, suffix |-> ExtDocx, pages |-> ps,
      corrupt |-> c] : ps \in PageSeqs(1), c \in BOOLEAN}

\* extract_text_from_pdf(pdf_path) returns its pages.
extract_text_from_pdf ==
    /\ call.fn = "extract"
    /\ call.pc = "idle"
    /\ call.file.suffix = ExtPdf
    /\ call' = [call EXCEPT !.pc = "returned", !.out = ExtractPages(call.file)]

\* extract_text_from_excel(excel_path) returns its pages, one per sheet.
extract_text_from_excel ==
    /\ call.fn = "extract"
    /\ call.pc = "idle"
    /\ call.file.suffix \in {ExtXlsx, ExtXls}
    /\ call' = [call EXCEPT !.pc = "returned", !.out = ExtractPages(call.file)]

\* extract_text_from_word(word_path) returns its one page, or none.
extract_text_from_word ==
    /\ call.fn = "extract"
    /\ call.pc = "idle"
    /\ call.file.suffix = ExtDocx
    /\ call' = [call EXCEPT !.pc = "returned", !.out = ExtractPages(call.file)]

(***************************************************************************)
(* The destination of a download: src/crawler.py                           *)
(***************************************************************************)
\* Download attempts for one URL in one behaviour.
MaxAttempts == 2

\* download_document lines 233-237 of one more attempt for the same URL,
\* extension and category: the filename and the destination path.
ResolveDest ==
    /\ call.fn = "download_document"
    /\ Len(call.out) < MaxAttempts
    /\ call' = [call EXCEPT !.out =
                  Append(@, [filename |-> StoredName(call.url, call.ext),
                             name |-> _extract_doc_filename(call.url, call.ext),
                             dest |-> Dest(call.url, call.ext, call.category)])]

(***************************************************************************)
(* get_download_stats: src/crawler.py                                      *)
(***************************************************************************)
\* The condition of data/irdai_tracker.db when get_download_stats runs:
\* absent; a database with its downloads table; a file without the table
\* (init_db never completed); a database another connection holds locked;
\* a file that is not a database or whose image is malformed.
DbConditions == {"missing", "ok", "no_table", "locked", "corrupt"}

\* What conn.execute(SELECT ...) raises under each condition: sqlite3 maps
\* SQLITE_ERROR and SQLITE_BUSY to OperationalError, SQLITE_NOTADB and
\* SQLITE_CORRUPT to DatabaseError, the base class of OperationalError.
ExecuteRaises(db) ==
    CASE db = "ok" -> "None"
      [] db \in {"no_table", "locked"} -> "OperationalError"
      [] db = "corrupt" -> "DatabaseError"

\* SELECT category, COUNT(*) FROM downloads GROUP BY category, as a dict
GroupByCategory(rows) ==
    [c \in {r.category : r \in rows} |->
        Cardinality({r \in rows : r.category = c})]

\* The empty dict
EmptyMapping == [c \in {} |-> 0]

\* The rows the crawler may have written: every document under either
\* category.
StatsRows ==
    {RowOf(d, FirstExt(Lower(Href(d)), 1), c) :
        d \in DocUrls, c \in {"regulations", "circulars"}}

\* The ledgers: at most one row per URL (url is UNIQUE).
StatsLedgers ==
    {L \in SUBSET StatsRows : \A r1, r2 \in L : r1.url = r2.url => r1 = r2}

\* get_download_stats() is called.
StatsCall ==
    /\ call.fn = "get_download_stats"
    /\ call.pc = "idle"
    /\ call' = [call EXCEPT !.pc = "exists"]
    /\ UNCHANGED crawlVars

\* `if not DB_PATH.exists(): return {}`
StatsMissing ==
    /\ call.fn = "get_download_stats"
    /\ call.pc = "exists"
    /\ call.db = "missing"
    /\ call' = [call EXCEPT !.pc = "returned", !.out = EmptyMapping]
    /\ UNCHANGED crawlVars

\* The file exists: sqlite3.connect (which opens the file lazily), `try:`
StatsConnect ==
    /\ call.fn = "get_download_stats"
    /\ call.pc = "exists"
    /\ call.db # "missing"
    /\ call' = [call EXCEPT !.pc = "execute"]
    /\ UNCHANGED crawlVars

\* conn.execute(...).fetchall() and the dict comprehension;
\* `except sqlite3.OperationalError: return {}`; any other exception leaves
\* the function after `finally: conn.close()`.
StatsExecute ==
    /\ call.fn = "get_download_stats"
    /\ call.pc = "execute"
    /\ call' = CASE ExecuteRaises(call.db) = "None" ->
                      [call EXCEPT !.pc = "returned",
                                   !.out = GroupByCategory(ledger)]
                 [] ExecuteRaises(call.db) = "OperationalError" ->
                      [call EXCEPT !.pc = "returned", !.out = EmptyMapping]
                 [] OTHER ->
                      [call EXCEPT !.pc = "raised",
                                   !.out = ExecuteRaises(call.db)]
    /\ UNCHANGED crawlVars

\* The other components at rest.
FetchIdle ==
    /\ transport = AllOk
    /\ fetchPc = "call"
    /\ fetchOut = NoFetch

CrawlIdle ==
    /\ ledger = {}
    /\ files = [x \in {} |-> <<>>]
    /\ run = [p \in Runs |-> IdleRun]
    /\ nfail = 0

IngestIdle ==
    /\ docStore = {}
    /\ index = <<>>
    /\ ing = IdleIngest

QueryIdle == qry = IdleQuery

CallIdle == call = NoCall

SchedIdle ==
    /\ state_file = EmptyState
    /\ _lock = <<>>
    /\ _scheduler_started = FALSE
    /\ thread = [t \in Threads |-> NoThread]
    /\ starter = [c \in 1..MaxStarts |-> "idle"]
    /\ now = 0
    /\ nerr = 0
    /\ nclock = 0

InitFetch ==
    /\ transport \in Transports
    /\ fetchPc = "call"
    /\ fetchOut = NoFetch
    /\ CrawlIdle
    /\ IngestIdle
    /\ SchedIdle
    /\ QueryIdle
    /\ CallIdle

\* A caller invokes fetch_with_retry(url).
FetchCall ==
    /\ fetchPc = "call"
    /\ fetchPc' = "loop"
    /\ UNCHANGED <<transport, fetchOut, crawlVars, ingestVars, schedVars, queryVars, callVars>>

\* One iteration of the retry loop.
FetchAttempt ==
    /\ fetchPc = "loop"
    /\ ~FetchLeft(fetchOut)
    /\ ~FetchExhausted(fetchOut)
    /\ fetchOut' = FetchIter(fetchOut, transport[fetchOut.attempt])
    /\ UNCHANGED <<transport, fetchPc, crawlVars, ingestVars, schedVars, queryVars, callVars>>

\* The loop ran out of attempts: return None.
FetchGiveUp ==
    /\ fetchPc = "loop"
    /\ ~FetchLeft(fetchOut)
    /\ FetchExhausted(fetchOut)
    /\ fetchOut' = FetchExhaust(fetchOut)
    /\ UNCHANGED <<transport, fetchPc, crawlVars, ingestVars, schedVars, queryVars, callVars>>

\* The call returns to its caller.
FetchReturn ==
    /\ fetchPc = "loop"
    /\ FetchLeft(fetchOut)
    /\ fetchPc' = "returned"
    /\ UNCHANGED <<transport, fetchOut, crawlVars, ingestVars, schedVars, queryVars, callVars>>

NextFetch == FetchCall \/ FetchAttempt \/ FetchGiveUp \/ FetchReturn

SpecFetch == InitFetch /\ [][NextFetch]_vars

(***************************************************************************)
(* Spec: two run_crawl invocations, in sequence or overlapping, over the   *)
(* site above, starting from an empty ledger and an empty document store.  *)
(***************************************************************************)
Init ==
    /\ CrawlIdle
    /\ FetchIdle
    /\ IngestIdle
    /\ SchedIdle
    /\ QueryIdle
    /\ CallIdle

Next ==
    \E p \in Runs :
        \/ StartCrawl(p) /\ UNCHANGED <<fetchVars, ingestVars, schedVars, queryVars, callVars>>
        \/ FetchPage(p) /\ UNCHANGED <<fetchVars, ingestVars, schedVars, queryVars, callVars>>
        \/ BeginDownload(p) /\ UNCHANGED <<fetchVars, ingestVars, schedVars, queryVars, callVars>>
        \/ DlFetch(p) /\ UNCHANGED <<fetchVars, ingestVars, schedVars, queryVars, callVars>>
        \/ DlStore(p) /\ UNCHANGED <<fetchVars, ingestVars, schedVars, queryVars, callVars>>
        \/ DlRecord(p) /\ UNCHANGED <<fetchVars, ingestVars, schedVars, queryVars, callVars>>
        \/ FollowDetail(p) /\ UNCHANGED <<fetchVars, ingestVars, schedVars, queryVars, callVars>>

Spec == Init /\ [][Next]_vars

(***************************************************************************)
(* SpecCategory: one call crawl_category(category, path) of the first      *)
(* category, with the path leading into any of the link structures of      *)
(* CategoryStarts; the behaviour ends when crawl_category has returned.    *)
(***************************************************************************)
InCategory(p) == run[p].pc \notin {"idle", "done", "raised"} /\ run[p].li = 1

InitCategory ==
    /\ ledger = {}
    /\ files = [x \in {} |-> <<>>]
    /\ nfail = 0
    /\ \E start \in CategoryStarts :
         run = [p \in Runs |->
                  IF p = 1
                  THEN [IdleRun EXCEPT !.pc = "list", !.li = 1, !.page_num = 1,
                                       !.url = start, !.pred = "first"]
                  ELSE IdleRun]
    /\ FetchIdle
    /\ IngestIdle
    /\ SchedIdle
    /\ QueryIdle
    /\ CallIdle

NextCategory ==
    \E p \in Runs :
        \/ InCategory(p) /\ FetchPage(p) /\ UNCHANGED <<fetchVars, ingestVars, schedVars, queryVars, callVars>>
        \/ InCategory(p) /\ BeginDownload(p) /\ UNCHANGED <<fetchVars, ingestVars, schedVars, queryVars, callVars>>
        \/ InCategory(p) /\ DlFetch(p) /\ UNCHANGED <<fetchVars, ingestVars, schedVars, queryVars, callVars>>
        \/ InCategory(p) /\ DlStore(p) /\ UNCHANGED <<fetchVars, ingestVars, schedVars, queryVars, callVars>>
        \/ InCategory(p) /\ DlRecord(p) /\ UNCHANGED <<fetchVars, ingestVars, schedVars, queryVars, callVars>>
        \/ InCategory(p) /\ FollowDetail(p) /\ UNCHANGED <<fetchVars, ingestVars, schedVars, queryVars, callVars>>

SpecCategory == InitCategory /\ [][NextCategory]_vars

\* A listing-page fetch that is due is made and returns (fetch_with_retry
\* makes a bounded number of attempts, each with a timeout).
ListingFetch ==
    \E p \in Runs :
        InCategory(p) /\ FetchPage(p) /\ UNCHANGED <<fetchVars, ingestVars, schedVars, queryVars, callVars>>

SpecCategoryLive == SpecCategory /\ WF_vars(ListingFetch)

(***************************************************************************)
(* SpecIngest: run_ingestion invoked up to MaxIngestRuns times, one after  *)
(* the other, over a document store that does not change; an invocation    *)
(* may be killed or may end by an exception of the embedding model or the  *)
(* index.                                                                  *)
(***************************************************************************)
InitIngest ==
    /\ docStore \in SUBSET DocUniverse
    /\ index = <<>>
    /\ ing = IdleIngest
    /\ CrawlIdle
    /\ FetchIdle
    /\ SchedIdle
    /\ QueryIdle
    /\ CallIdle

NextIngest ==
    \/ StartIngest /\ UNCHANGED <<fetchVars, crawlVars, schedVars, queryVars, callVars>>
    \/ FinishIngest /\ UNCHANGED <<fetchVars, crawlVars, schedVars, queryVars, callVars>>
    \/ SkipFile /\ UNCHANGED <<fetchVars, crawlVars, schedVars, queryVars, callVars>>
    \/ PrepareFile /\ UNCHANGED <<fetchVars, crawlVars, schedVars, queryVars, callVars>>
    \/ EmbedRaises /\ UNCHANGED <<fetchVars, crawlVars, schedVars, queryVars, callVars>>
    \/ UpsertBatch /\ UNCHANGED <<fetchVars, crawlVars, schedVars, queryVars, callVars>>
    \/ UpsertRaises /\ UNCHANGED <<fetchVars, crawlVars, schedVars, queryVars, callVars>>
    \/ CrashIngest /\ UNCHANGED <<fetchVars, crawlVars, schedVars, queryVars, callVars>>

SpecIngest == InitIngest /\ [][NextIngest]_vars

(***************************************************************************)
(* SpecSched: start_scheduler and trigger_manual_update called from the    *)
(* application's threads, the loop threads and the manual-update threads   *)
(* they start, all interleaved; crawl and ingestion are the two phases of  *)
(* _run_update and each returns or raises.                                 *)
(***************************************************************************)
InitSched ==
    /\ SchedIdle
    /\ QueryIdle
    /\ CallIdle
    /\ CrawlIdle
    /\ FetchIdle
    /\ IngestIdle

NextSched ==
    \/ TimePasses /\ UNCHANGED <<fetchVars, crawlVars, ingestVars, queryVars, callVars>>
    \/ \E c \in 1..MaxStarts :
         \/ StartCheck(c) /\ UNCHANGED <<fetchVars, crawlVars, ingestVars, queryVars, callVars>>
         \/ StartThread(c) /\ UNCHANGED <<fetchVars, crawlVars, ingestVars, queryVars, callVars>>
    \/ \E t \in Threads :
         \/ LoopCheck(t) /\ UNCHANGED <<fetchVars, crawlVars, ingestVars, queryVars, callVars>>
         \/ LoopAcquire(t) /\ UNCHANGED <<fetchVars, crawlVars, ingestVars, queryVars, callVars>>
         \/ LoopRecheck(t) /\ UNCHANGED <<fetchVars, crawlVars, ingestVars, queryVars, callVars>>
         \/ trigger_manual_update(t) /\ UNCHANGED <<fetchVars, crawlVars, ingestVars, queryVars, callVars>>
         \/ RunRead(t) /\ UNCHANGED <<fetchVars, crawlVars, ingestVars, queryVars, callVars>>
         \/ RunMark(t) /\ UNCHANGED <<fetchVars, crawlVars, ingestVars, queryVars, callVars>>
         \/ CrawlPhaseOk(t) /\ UNCHANGED <<fetchVars, crawlVars, ingestVars, queryVars, callVars>>
         \/ CrawlPhaseRaises(t) /\ UNCHANGED <<fetchVars, crawlVars, ingestVars, queryVars, callVars>>
         \/ IngestPhaseOk(t) /\ UNCHANGED <<fetchVars, crawlVars, ingestVars, queryVars, callVars>>
         \/ IngestPhaseRaises(t) /\ UNCHANGED <<fetchVars, crawlVars, ingestVars, queryVars, callVars>>
         \/ RunExcept(t) /\ UNCHANGED <<fetchVars, crawlVars, ingestVars, queryVars, callVars>>
         \/ RunFinally(t) /\ UNCHANGED <<fetchVars, crawlVars, ingestVars, queryVars, callVars>>

SpecSched == InitSched /\ [][NextSched]_vars

\* The steps of thread t.
ThreadStep(t) ==
    /\ \/ LoopCheck(t) \/ LoopAcquire(t) \/ LoopRecheck(t)
       \/ RunRead(t) \/ RunMark(t)
       \/ CrawlPhaseOk(t) \/ CrawlPhaseRaises(t)
       \/ IngestPhaseOk(t) \/ IngestPhaseRaises(t)
       \/ RunExcept(t) \/ RunFinally(t)
    /\ UNCHANGED <<fetchVars, crawlVars, ingestVars, queryVars, callVars>>

\* Every started thread keeps being scheduled, every sleep ends, and
\* run_crawl and run_ingestion end (by returning or by raising).
SpecSchedLive == SpecSched /\ \A t \in Threads : WF_vars(ThreadStep(t))

(***************************************************************************)
(* SpecQuery: questions asked one after the other, through run_rag_query   *)
(* or by calling retrieve_relevant_chunks directly, against the index a    *)
(* complete ingestion of some document store has left (the empty index     *)
(* for the empty store and for a store of unreadable files); opening the   *)
(* index may fail.                                                         *)
(***************************************************************************)
\* The files of few chunks.
SmallDocs == {f \in DocUniverse : Len(DocIds(f)) <= MaxK}

InitQuery ==
    /\ docStore \in SUBSET SmallDocs
    /\ index = IndexAfter(DocFiles(docStore))
    /\ ing = IdleIngest
    /\ QueryIdle
    /\ CallIdle
    /\ FetchIdle
    /\ CrawlIdle
    /\ SchedIdle

NextQuery ==
    \/ \E q \in Queries :
         run_rag_query(q) /\ UNCHANGED <<fetchVars, crawlVars, schedVars, callVars>>
    \/ \E q \in Queries, k \in 1..MaxK :
         retrieve_relevant_chunks(q, k) /\ UNCHANGED <<fetchVars, crawlVars, schedVars, callVars>>
    \/ OpenCollection /\ UNCHANGED <<fetchVars, crawlVars, schedVars, callVars>>
    \/ OpenRaises /\ UNCHANGED <<fetchVars, crawlVars, schedVars, callVars>>
    \/ CountEmpty /\ UNCHANGED <<fetchVars, crawlVars, schedVars, callVars>>
    \/ QueryIndex /\ UNCHANGED <<fetchVars, crawlVars, schedVars, callVars>>
    \/ NoChunksAnswer /\ UNCHANGED <<fetchVars, crawlVars, schedVars, callVars>>
    \/ CallModel /\ UNCHANGED <<fetchVars, crawlVars, schedVars, callVars>>

SpecQuery == InitQuery /\ [][NextQuery]_vars

(***************************************************************************)
(* SpecStats: one get_download_stats call against a ledger file in each    *)
(* condition.                                                              *)
(***************************************************************************)
InitStats ==
    /\ \E db \in DbConditions :
         /\ call = [fn |-> "get_download_stats", pc |-> "idle", db |-> db,
                    out |-> "none"]
         /\ ledger \in StatsLedgers
         /\ db \in {"missing", "no_table"} => ledger = {}
    /\ files = [x \in {} |-> <<>>]
    /\ run = [p \in Runs |-> IdleRun]
    /\ nfail = 0
    /\ FetchIdle
    /\ IngestIdle
    /\ SchedIdle
    /\ QueryIdle

NextStats ==
    \/ StatsCall /\ UNCHANGED <<fetchVars, ingestVars, schedVars, queryVars>>
    \/ StatsMissing /\ UNCHANGED <<fetchVars, ingestVars, schedVars, queryVars>>
    \/ StatsConnect /\ UNCHANGED <<fetchVars, ingestVars, schedVars, queryVars>>
    \/ StatsExecute /\ UNCHANGED <<fetchVars, ingestVars, schedVars, queryVars>>

SpecStats == InitStats /\ [][NextStats]_vars

(***************************************************************************)
(* SpecExtract: one extractor call on each file of ExtractInputs.          *)
(***************************************************************************)
InitExtract ==
    /\ \E f \in ExtractInputs :
         call = [fn |-> "extract", pc |-> "idle", file |-> f, out |-> <<>>]
    /\ CrawlIdle
    /\ FetchIdle
    /\ IngestIdle
    /\ SchedIdle
    /\ QueryIdle

NextExtract ==
    \/ extract_text_from_pdf
         /\ UNCHANGED <<fetchVars, crawlVars, ingestVars, schedVars, queryVars>>
    \/ extract_text_from_excel
         /\ UNCHANGED <<fetchVars, crawlVars, ingestVars, schedVars, queryVars>>
    \/ extract_text_from_word
         /\ UNCHANGED <<fetchVars, crawlVars, ingestVars, schedVars, queryVars>>

SpecExtract == InitExtract /\ [][NextExtract]_vars

(***************************************************************************)
(* SpecFilename: download attempts for one URL, with every extension of    *)
(* DOC_TYPES and under either category, up to the destination path.        *)
(***************************************************************************)
InitFilename ==
    /\ \E d \in DocUrls \cup MoreUrls :
       \E k \in 1..Len(DocTypeExts) :
       \E c \in {"regulations", "circulars"} :
         call = [fn |-> "download_document", pc |-> "idle", url |-> d,
                 ext |-> DocTypeExts[k], category |-> c, out |-> <<>>]
    /\ CrawlIdle
    /\ FetchIdle
    /\ IngestIdle
    /\ SchedIdle
    /\ QueryIdle

NextFilename ==
    ResolveDest /\ UNCHANGED <<fetchVars, crawlVars, ingestVars, schedVars, queryVars>>

SpecFilename == InitFilename /\ [][NextFilename]_vars

(***************************************************************************)
(* Claims about fetch_with_retry                                           *)
(***************************************************************************)
AllFail(tr) == \A k \in 1..MAX_RETRIES : tr[k] # "ok"

\* Index of the first successful attempt among the first MAX_RETRIES, 0 if none.
FirstOk(tr) ==
    IF AllFail(tr) THEN 0
    ELSE CHOOSE k \in 1..MAX_RETRIES :
            tr[k] = "ok" /\ \A j \in 1..(k - 1) : tr[j] # "ok"

\* C7: fetch_with_retry makes at most 3 attempts, stops at the first successful
\* attempt, and when every attempt fails (transport failure or non-2xx) it makes
\* exactly 3 attempts and returns None without raising.
C7_BoundedRetry ==
    /\ fetchOut.attempts <= 3
    /\ ~fetchOut.raised
    /\ fetchPc = "returned" =>
          IF AllFail(transport)
          THEN fetchOut.ret = "None" /\ fetchOut.attempts = 3
          ELSE fetchOut.ret = "resp" /\ fetchOut.attempts = FirstOk(transport)

C7_Witness ==
    /\ fetchPc = "returned"
    /\ AllFail(transport)
    /\ fetchOut.ret = "None"
    /\ fetchOut.attempts = 3

\* C8 as stated: against a transport that always fails, the delays the call
\* waits are 2s, 4s, 8s.
C8_Original ==
    (fetchPc = "returned" /\ AllFail(transport)) => fetchOut.slept = <<2, 4, 8>>

\* C8 amended: against a transport that always fails, the delays the call waits
\* are 2s, 4s: the 8s of the third attempt is computed and logged, never slept,
\* because no attempt follows it.
C8_DelaysWaited ==
    (fetchPc = "returned" /\ AllFail(transport)) => fetchOut.slept = <<2, 4>>

C8_Witness ==
    /\ fetchPc = "returned"
    /\ AllFail(transport)
    /\ fetchOut.slept = <<2, 4>>

(***************************************************************************)
(* Claims about the crawler                                                *)
(***************************************************************************)
InLedger(d) == \E r \in ledger : r.url = d

\* C2: if the ledger already has a row for a URL, download_document for that
\* URL returns False without any fetch, without writing any file and without
\* changing the ledger.
C2_GateSkips ==
    [][\A p \in Runs : \A link \in run[p].docs :
          (run[p].pc = "docs" /\ link \notin run'[p].docs /\ InLedger(link[1]))
          => /\ run'[p].pc \notin {"fetch", "store", "record"}
             /\ run'[p].cur = <<>>
             /\ run'[p].last.url = link[1]
             /\ run'[p].last.ret = "False"
             /\ run'[p].last.via = "gate"
             /\ \A k \in {"pdf", "excel", "word"} :
                    run'[p].counts[k] + run'[p].summary[k]
                        = run[p].counts[k] + run[p].summary[k]
             /\ files' = files
             /\ ledger' = ledger]_vars

C2_Witness ==
    \E p \in Runs :
        /\ run[p].last.via = "gate"
        /\ run[p].last.ret = "False"
        /\ InLedger(run[p].last.url)

\* Run p has returned its summary and started after the other run had
\* returned its own.
SecondInSequence(p) == run[p].pc = "done" /\ run[p].pred \in {"clean", "failed"}

NoNewDownloads(p) ==
    /\ run[p].summary = Zero
    /\ Cardinality(ledger) = run[p].startRows

C4_FirstInsertWins ==
    [][/\ \A r \in ledger : r \in ledger'
       /\ \A r1, r2 \in ledger' : r1.url = r2.url => r1 = r2]_vars

\* A record_download whose row differs from the one the ledger keeps for
\* that URL has been executed.
C4_Witness ==
    \E p \in Runs :
        /\ run[p].last.via = "recorded"
        /\ run[p].last.row \notin ledger
        /\ InLedger(run[p].last.url)

\* The response's declared content type contains "pdf" or "octet-stream".
PdfTypeOk(ct) == ct \in {"application/pdf", "application/octet-stream"}

ExtOf(d) == FirstExt(Lower(Href(d)), 1)

\* C5: a PDF candidate whose response content type contains neither "pdf" nor
\* "octet-stream" is rejected: no file, no ledger row, returns False.
C5_ContentTypeChecked ==
    \A d \in DocUrls :
        (ExtOf(d) = ExtPdf /\ ~PdfTypeOk(ContentType(d)))
        => /\ ~InLedger(d)
           /\ \A path \in DOMAIN files : files[path] # Body(d)
           /\ \A p \in Runs : run[p].last.url = d => run[p].last.ret = "False"

\* C6: if storing a document fails (creating the destination or writing the
\* body), download_document returns False, records nothing, and the crawl
\* goes on with the next link: neither the category nor the run is aborted.
C6_StoreFailureIsolated ==
    \A p \in Runs :
        run[p].last.via \in {"mkdir_error", "open_error", "write_error"}
        => /\ run[p].last.ret = "False"
           /\ run[p].last.row = NoRow
           /\ run[p].pc # "raised"

\* C14: when the fetch of a listing page fails after its retries,
\* crawl_category stops paginating the category and returns the counts it
\* has, and run_crawl adds them to the summary and goes on with the next
\* category or extra page.
C14_ListingFailureEndsCategoryOnly ==
    [][\A p \in Runs :
         (/\ run[p].pc = "list"
          /\ Listings[run[p].li].kind = "category"
          /\ run'[p] # run[p]
          /\ nfail' = nfail + 1)
         => (/\ run'[p].pc = "list"
             /\ run'[p].li = run[p].li + 1
             /\ run'[p].page_num = 1
             /\ run'[p].url = StartPage(Listings[run[p].li + 1].category)
             /\ \A k \in {"pdf", "excel", "word"} :
                   run'[p].summary[k] = run[p].summary[k] + run[p].counts[k])]_vars

\* A run alone whose first listing page of "regulations" could not be
\* fetched (d1 is linked from that category only) and which crawled the
\* other category and the extra page and returned its summary.
C14_Witness ==
    \E p \in Runs :
        /\ \A q \in Runs \ {p} : run[q].pc = "idle"
        /\ run[p].pc = "done"
        /\ run[p].failed
        /\ ~InLedger("d1")
        /\ InLedger("d4")
        /\ InLedger("d2")
        /\ run[p].summary = [pdf |-> 1, excel |-> 1, word |-> 0]

\* The next-page step of crawl_category after a listing page at r, seen in
\* the run's next state r2: the category has returned, or the run is about
\* to fetch the next listing page.
NextPageStepTaken(r, r2) ==
    IF PaginationEnds(get_next_page_url(r.url), r.url, r.page_num)
    THEN r2.li = r.li + 1
    ELSE /\ r2.li = r.li
         /\ r2.pc = "list"
         /\ r2.url = get_next_page_url(r.url)
         /\ r2.page_num = r.page_num + 1

\* C15: when the fetch of a detail page fails, or processing it fails or
\* raises, crawl_category does not end by the exception: the detail pages
\* not yet followed all stay to be followed, and when none is left the
\* next-page step is taken.
C15_DetailFailureSkipsOnePage ==
    [][\A p \in Runs :
         LET r == run[p]
             r2 == run'[p]
         IN  (/\ nfail' = nfail + 1
              /\ r2 # r
              /\ r.pc = "details" \/ (r.inner /\ r.pc \in {"fetch", "store"}))
             => (/\ r2.pc # "raised"
                 /\ IF r.pc = "details"
                    THEN r2.dets \subseteq r.dets
                         /\ Cardinality(r2.dets) = Cardinality(r.dets) - 1
                    ELSE r2.dets = r.dets
                 /\ IF r2.dets # {} \/ r2.docs # {}
                    THEN r2.li = r.li /\ r2.url = r.url
                         /\ r2.pc \in {"details", "docs"}
                    ELSE NextPageStepTaken(r, r2))]_vars

\* Listing page D1 with its two detail pages: T1 failed (its fetch, or the
\* store of its document d3) and the run is recording d1 of T2, the other
\* detail page.
C15_Witness ==
    /\ run[1].url = "D1"
    /\ run[1].failed
    /\ run[1].inner
    /\ run[1].pc = "record"
    /\ run[1].cur[1] = "d1"
    /\ ~InLedger("d3")

\* C16: crawl_category terminates for every link structure, pagination
\* cycles included, and fetches at most max_pages listing pages: the number
\* of the page being crawled never exceeds max_pages, and from some point
\* on the call has no listing page left to fetch.
C16_BoundedPagination ==
    /\ [](run[1].li = 1 => run[1].page_num <= max_pages)
    /\ <>[](~(InCategory(1) /\ run[1].pc = "list"))

\* The fifth listing page of the cycle A1 -> A2 -> A1.
C16_Witness ==
    /\ run[1].li = 1
    /\ run[1].page_num = max_pages
    /\ run[1].url = "A1"

\* C17 as stated: get_next_page_url returns none when the "next" anchor
\* resolves to the URL of the current page.
C17_Original ==
    \A p \in Runs :
        (InCategory(p) /\ Page(run[p].url).next = run[p].url)
            => get_next_page_url(run[p].url) = "none"

\* C17, amended: get_next_page_url returns the resolved URL also when it is
\* the current page; crawl_category compares the two and ends the
\* pagination, so that no page is fetched twice in a row.
C17_SelfLinkEndsPagination ==
    [][\A p \in Runs :
         (/\ run[p].li = 1
          /\ run[p].pc \notin {"idle", "done", "raised"}
          /\ get_next_page_url(run[p].url) = run[p].url)
         => (run'[p].li = 1 => run'[p].page_num = run[p].page_num)]_vars

\* crawl_category was called on S1, whose "next" anchor points to S1: the
\* page was processed once (d2 recorded under the category, counted once)
\* and the category has returned.
C17_Witness ==
    /\ run[1].li = 2
    /\ ~run[1].failed
    /\ run[1].summary = [pdf |-> 0, excel |-> 1, word |-> 0]
    /\ \E row \in ledger :
          row.url = "d2" /\ row.category = CategoryLabel("regulations", ExtXlsx)

C29_DestInsideCategory ==
    call.fn = "download_document"
        => \A k \in 1..Len(call.out) :
              LET filename == call.out[k].filename
                  comps == Split(filename)
              IN  /\ \A i \in 1..Len(filename) : filename[i] # "/"
                  /\ \A i \in 1..Len(comps) : comps[i] # <<".", ".">>

\* No other run_crawl has run while run p did, so far: the other invocation
\* has not started, or it had ended when p started.
NoOtherCrawl(p) ==
    \/ \A q \in Runs \ {p} : run[q].pc = "idle"
    \/ run[p].pred \in {"clean", "failed", "raised"}

\* New downloads run p has counted so far under type k.
Counted(r, k) == r.summary[k] + r.counts[k]

\* C25: for a run_crawl with no other crawl running concurrently, the
\* returned summary's pdf + excel + word equals the number of ledger rows
\* added during the run, and each row is added by the step that counts the
\* download, under the type that is the row's category suffix.
C25_SummaryMatchesLedger ==
    /\ [](\A p \in Runs :
            (run[p].pc = "done" /\ NoOtherCrawl(p))
              => run[p].summary.pdf + run[p].summary.excel + run[p].summary.word
                    = Cardinality(ledger) - run[p].startRows)
    /\ [][\A p \in Runs :
            (run[p].pc = "record" /\ run'[p] # run[p] /\ NoOtherCrawl(p))
              => LET row == run'[p].last.row
                 IN  /\ row \notin ledger
                     /\ ledger' = ledger \cup {row}
                     /\ \A k \in {"pdf", "excel", "word"} :
                           Counted(run'[p], k) =
                              Counted(run[p], k)
                                 + (IF row.category[2] = k THEN 1 ELSE 0)]_vars

\* A run alone downloaded the four documents of the site and returned.
C25_Witness ==
    \E p \in Runs :
        /\ run[p].pc = "done"
        /\ \A q \in Runs \ {p} : run[q].pc = "idle"
        /\ run[p].summary = [pdf |-> 2, excel |-> 1, word |-> 1]
        /\ Cardinality(ledger) = 4
        /\ \E row \in ledger : row.category = <<"regulations", "excel">>

\* C26: in crawl_category a pacing delay occurs between any two consecutive
\* document download attempts (also when an attempt is skipped by the
\* ledger gate), and between any two consecutive listing-page fetches of
\* the category: when download_document is called after an earlier call at
\* least DOWNLOAD_DELAY has been slept since, and when a listing page after
\* the first is fetched at least PAGE_DELAY has been slept since the
\* previous fetch.
C26_PacingBetweenRequests ==
    [][\A p \in Runs :
         (InCategory(p) /\ run'[p] # run[p])
           => /\ (run[p].pc = "docs" /\ run[p].sinceDl # NotYet)
                    => run[p].sinceDl >= 500
              /\ (run[p].pc = "list" /\ run[p].page_num > 1)
                    => run[p].sincePage >= 1000]_vars

\* On the second listing page of the category a download attempt is being
\* made after an earlier attempt, on that page, was skipped by the gate.
C26_Witness ==
    /\ InCategory(1)
    /\ run[1].page_num = 2
    /\ run[1].pc = "fetch"
    /\ run[1].last.via = "gate"
    /\ run[1].sinceDl = 0
    /\ run[1].sincePage = DOWNLOAD_DELAY

\* C27: when two crawl runs overlap, no URL is fetched and written by both:
\* the two runs are never both past the store of the same URL, and the
\* hash in a URL's ledger row is the hash of the bytes left on disk.
C27_NoDoubleDownload ==
    /\ \A p, q \in Runs :
          (p # q /\ run[p].pc = "record" /\ run[q].pc = "record")
            => run[p].cur[1] # run[q].cur[1]
    /\ \A row \in ledger : \A path \in DOMAIN files :
          (path[3] = row.filename /\ <<path[2], FileType(ExtOf(row.url))>> = row.category)
            => Sha256(files[path]) = row.file_hash

\* C28: distinct URLs downloaded into the same category and document type
\* are stored at distinct file paths: for every ledger row the file at
\* {type dir}/{category}/{filename} holds the bytes whose SHA-256 is the
\* row's file_hash.
C28_RowMatchesFile ==
    \A row \in ledger :
        LET path == <<DOC_TYPES(ExtOf(row.url)), row.category[1], row.filename>>
        IN  /\ path \in DOMAIN files
            /\ Sha256(files[path]) = row.file_hash

\* C21: get_download_stats returns an empty mapping instead of raising
\* whenever the ledger store is unreadable, both when the database file is
\* missing and when it is corrupt.
C21_StatsFailSoft ==
    (/\ call.fn = "get_download_stats"
     /\ call.db \in {"missing", "corrupt"}
     /\ call.pc \in {"returned", "raised"})
        => (call.pc = "returned" /\ call.out = EmptyMapping)

(***************************************************************************)
(* Claims about ingestion                                                  *)
(***************************************************************************)
\* The ids a single run over the store leaves in an empty index when nothing
\* interrupts it: every chunk id of every file.
CleanRunIds == UNION {IdSet(DocIds(f)) : f \in docStore}

\* C22: in every extractor (PDF page, Excel sheet, Word document) that
\* reads its file, a page or sheet whose trimmed text has length <= 50
\* never appears in the output and one with length >= 51 always does, and a
\* page that is kept carries its original 1-based position and its own text.
C22_PageThreshold ==
    (call.fn = "extract" /\ call.pc = "returned" /\ ~call.file.corrupt)
        => LET pages == call.file.pages
               out == call.out
           IN  /\ \A i \in 1..Len(pages) :
                     /\ pages[i] <= 50
                          => \A k \in 1..Len(out) : out[k].page # i
                     /\ pages[i] >= 51
                          => \E k \in 1..Len(out) :
                                out[k].page = i /\ out[k].len = pages[i]
               /\ \A k \in 1..Len(out) :
                     /\ out[k].page \in 1..Len(pages)
                     /\ out[k].len = pages[out[k].page]
               /\ \A k1, k2 \in 1..Len(out) :
                     k1 < k2 => out[k1].page < out[k2].page

\* A spreadsheet whose first sheet has 50 characters, the second 51 and
\* the third 0: the output is the second sheet alone, as page 2.
C22_Witness ==
    /\ call.fn = "extract"
    /\ call.pc = "returned"
    /\ call.file.type = "excel"
    /\ ~call.file.corrupt
    /\ call.file.pages = <<50, 51, 0>>
    /\ call.out = <<[page |-> 2, len |-> 51]>>

\* C30: every file that produced at least one chunk in a completed
\* ingestion run is skipped by the next run over the unchanged document
\* store, so that the second run performs no upsert and reports
\* total_files = 0 and total_chunks = 0 (also for a file whose page 1 was
\* discarded by the length threshold).
C30_SecondRunSkipsIngested ==
    (ing.pc = "done" /\ ing.prev = "done")
        => /\ \A f \in docStore : DocIds(f) # <<>> => f \in ing.skipped
           /\ ing.chunked = {}
           /\ ing.total_files = 0
           /\ ing.total_chunks = 0

\* C9: if an ingestion run crashes at any point (also between two upsert
\* batches of one file) and run_ingestion is run again over the same
\* documents, the index ids equal those of a single clean run.
C9_ResumptionReconciles ==
    (ing.pc = "done" /\ ing.prev = "crashed")
        => IdSet(index) = CleanRunIds

\* C10: running run_ingestion twice in sequence over an unchanged document
\* set leaves the index with the same number of entries and the same set of
\* ids after the second run as after the first.
C10_SecondRunSameIndex ==
    (ing.pc = "done" /\ ing.prev = "done")
        => /\ IdSet(index) = ing.startIds
           /\ Len(index) = ing.startCount

\* The second run re-ingested a file (one without a page-1 chunk) and
\* upserted ids the index already held.
C10_Witness ==
    /\ ing.pc = "done"
    /\ ing.prev = "done"
    /\ ing.total_chunks > 0
    /\ ing.startCount > batch

\* C11: within one ingestion run the ids derived for all chunks produced
\* are pairwise distinct: no two chunks, from the same or from different
\* files, receive the same id.
C11_IdsPairwiseDistinct ==
    /\ \A f \in ing.chunked : Cardinality(IdSet(DocIds(f))) = Len(DocIds(f))
    /\ \A f, g \in ing.chunked :
          f # g => IdSet(DocIds(f)) \cap IdSet(DocIds(g)) = {}

\* C12: while the next file of the loop has its id {stem}_p1_c0 in the id
\* set listed at the start of the run, no step extracts, embeds or upserts
\* it or counts it: the index, total_files, total_chunks and the per-type
\* counts stay as they are and the loop moves past the file (unless the
\* process is killed there).
C12_SkipTouchesNothing ==
    [][(/\ ing.pc = "file"
        /\ ing.todo # <<>>
        /\ ChunkId(Head(ing.todo).stem, 1, 0) \in ing.existing)
       => (/\ index' = index
           /\ ing'.total_files = ing.total_files
           /\ ing'.total_chunks = ing.total_chunks
           /\ ing'.type_counts = ing.type_counts
           /\ ing'.chunked = ing.chunked
           /\ \/ ing'.pc = "crashed"
              \/ ing'.pc = "file" /\ ing'.todo = Tail(ing.todo))]_vars

\* A run that skipped a file and finished.
C12_Witness ==
    /\ ing.pc = "done"
    /\ ing.skipped # {}
    /\ \A f \in ing.skipped : ChunkId(f.stem, 1, 0) \in ing.existing

\* C13: a single file's failure of extraction, embedding or upsert does not
\* abort run_ingestion: the run never ends by that exception.
C13_FileFailureIsolated == ing.pc # "raised"

(***************************************************************************)
(* Claims about the scheduler                                              *)
(***************************************************************************)
\* C1: at most one crawl-and-ingest cycle (_run_update) executes at any
\* time, for every interleaving of the scheduler loop and of
\* trigger_manual_update calls.
C1_AtMostOneCycle == Cardinality({t \in Threads : Executing(t)}) <= 1

\* C24: start_scheduler is idempotent: after any number of calls, also
\* calls made concurrently from different threads, at most one scheduler
\* thread has been started.
C24_OneSchedulerThread ==
    Cardinality({t \in Loops : thread[t].pc # "unborn"}) <= 1

\* Thread t is inside _run_update, past the write of line 63.
Marked(t) == thread[t].pc \in {"crawl", "ingest", "except", "finally"}

C32_RetryAfterIngestionFailure ==
    [][\A t \in Loops :
          (/\ thread[t].pc = "finally"
           /\ thread[t].exc = "ingestion error"
           /\ ~Executing(t)')
             => _needs_update(state_file', now')]_vars

\* C18: an exception raised by run_crawl or run_ingestion during a
\* scheduled run is caught and stored: when the loop thread's _run_update
\* returns, the state it has persisted holds last_error = str(exc) and the
\* thread is back in its loop, asleep before the next check; and a later
\* scheduled attempt follows (the thread enters _run_update again) unless
\* in the meantime no update is due any more.
C18_ErrorStoredLoopContinues ==
    /\ [][\A t \in Loops :
            (thread[t].pc = "finally" /\ thread[t].exc # "None"
                /\ thread'[t] # thread[t])
              => /\ thread'[t].pc = "sleep"
                 /\ state_file'.last_error = thread[t].exc
                 /\ ~state_file'.is_running]_vars
    /\ \A t \in Loops :
          (thread[t].pc = "except")
             ~> (thread[t].pc = "read" \/ ~_needs_update(state_file, now))

\* The only thread ever started is loop thread 1; its crawl phase raised,
\* the error is in the state file, and the thread has entered _run_update
\* for its next attempt.
C18_Witness ==
    /\ thread[<<"loop", 1>>].pc = "read"
    /\ \A t \in Threads \ {<<"loop", 1>>} : thread[t].pc = "unborn"
    /\ nerr = 1
    /\ state_file.last_error = "crawl error"
    /\ ~state_file.is_running

(***************************************************************************)
(* Claims about retrieval                                                  *)
(***************************************************************************)
\* C19: retrieve_relevant_chunks on an index that cannot be opened reports
\* an empty/unavailable result to run_rag_query and never raises an
\* exception into the UI: no question ends by an exception.
C19_OpenFailureReported == qry.pc # "raised"

\* C20: against an empty index retrieve_relevant_chunks returns the empty
\* list for every query and every k, without error and without a
\* nearest-neighbour query; run_rag_query then returns the "knowledge base
\* empty" answer, with no citations, without calling the language model.
C20_EmptyIndexAnswer ==
    (Len(index) = 0 /\ qry.pc = "done")
        => /\ qry.chunks = {}
           /\ qry.nn_queries = 0
           /\ qry.llm_calls = 0
           /\ qry.via = "run_rag_query"
                => (qry.answer = EmptyKbAnswer /\ qry.citations = {})

\* A question asked through run_rag_query against the empty index has been
\* answered.
C20_Witness ==
    /\ Len(index) = 0
    /\ qry.pc = "done"
    /\ qry.via = "run_rag_query"
    /\ qry.answer = EmptyKbAnswer

====
